---- MODULE Spec2Model ----
(***************************************************************************)
(* PodCache: a partitioned in-memory LRU tier (lru_cache.c) backed by a    *)
(* content-addressed disk tier (cas.c), coordinated by pod_cache.c and     *)
(* driven by the RESP command handlers of server_tcp.c.                    *)
(*                                                                         *)
(* Byte strings are sequences of byte codes ("1" is <<49>>, "x" is         *)
(* <<120>>).  Every C function is an operator that takes the state it      *)
(* works on and returns the new state together with its return code.       *)
(***************************************************************************)
EXTENDS Integers, Sequences, FiniteSets, TLC

(***************************************************************************)
(* Bounds of the model.                                                    *)
(***************************************************************************)
\* largest partition count tried (PODCACHE_PARTITIONS ranges over 1..64)
MaxPartitions == 2
\* bytes of capacity configured per partition (total = UnitCapacity * count)
UnitCapacity == 4
\* INCR is not taken when its result would exceed this counter value
MaxCounter == 2
\* command frames a client writes on one connection
MaxFrames == 2
\* SET commands handled before the connection under study is opened
MaxPriors == 2

MaxElems == 2

\* the registry entries a behaviour of the CAS store adds
MaxRegistry == 2

MaxPrefixed == 40

(***************************************************************************)
(* Inputs.                                                                 *)
(***************************************************************************)
\* the keys "a", "b": djb2 sends both to partition 0 of 1, and "b" to partition 1 of 2
Keys == {<<97>>, <<98>>}
\* the values a client sends with SET: "1", "xxx", "xxxxx"
SetValues == {<<49>>, <<120, 120, 120>>, <<120, 120, 120, 120, 120>>}
\* the bytes that may follow a malloc'ed value buffer up to the first NUL:
\* none, or a letter "x"
HeapTails == {<<>>, <<120>>}

(***************************************************************************)
(* Sequencing: Bind(x, F) is F applied to the value of x, with x evaluated *)
(* once, as a C statement assigns a call's result to a local variable.     *)
(***************************************************************************)
Bind(x, F(_)) == CHOOSE y \in {F(v) : v \in {x}} : TRUE

(***************************************************************************)
(* C strings and numbers.                                                  *)
(***************************************************************************)
RECURSIVE strlen(_)
\* strlen: the number of bytes before the first NUL
strlen(s) == IF s = <<>> \/ Head(s) = 0 THEN 0 ELSE 1 + strlen(Tail(s))

\* the C string a char* points at: the bytes before the first NUL
CStr(s) == SubSeq(s, 1, strlen(s))

IsSpace(c) == c = 32 \/ c \in 9..13
IsDigit(c) == c \in 48..57

RECURSIVE SkipSpace(_, _)
SkipSpace(s, i) == IF i <= Len(s) /\ IsSpace(s[i]) THEN SkipSpace(s, i + 1) ELSE i

RECURSIVE ParseDigits(_, _, _)
ParseDigits(s, i, acc) ==
    IF i <= Len(s) /\ IsDigit(s[i])
    THEN ParseDigits(s, i + 1, acc * 10 + (s[i] - 48))
    ELSE [val |-> acc, end |-> i]

\* strtol(s, &endptr, 10): optional white space, optional sign, digits.  end is
\* the index endptr points at (Len(s) + 1 is the terminating NUL); without any
\* digit endptr is the start of the string and the value is 0.
strtol(s) ==
    LET i == SkipSpace(s, 1)
        signed == i <= Len(s) /\ s[i] \in {43, 45}
        j == IF signed THEN i + 1 ELSE i
        r == ParseDigits(s, j, 0)
    IN  IF r.end = j THEN [val |-> 0, end |-> 1]
        ELSE [val |-> IF signed /\ s[i] = 45 THEN 0 - r.val ELSE r.val, end |-> r.end]

RECURSIVE UDigits(_)
UDigits(n) == IF n < 10 THEN <<48 + n>> ELSE Append(UDigits(n \div 10), 48 + (n % 10))

\* sprintf(buffer, "%ld", val)
FmtLd(val) == IF val < 0 THEN <<45>> \o UDigits(0 - val) ELSE UDigits(val)

(***************************************************************************)
(* hash_func.c                                                             *)
(***************************************************************************)
RECURSIVE djb2_limbs(_, _, _)
\* hash_djb2 on uint32_t, kept as two 16-bit limbs: hash = hi * 65536 + lo and
\* hash = hash * 33 + c modulo 2^32
djb2_limbs(str, hi, lo) ==
    IF str = <<>> THEN [hi |-> hi, lo |-> lo]
    ELSE LET t == lo * 33 + Head(str)
         IN  djb2_limbs(Tail(str), (hi * 33 + (t \div 65536)) % 65536, t % 65536)

hash_djb2(str) == djb2_limbs(str, 0, 5381)

\* hash(key) % n for a 32-bit hash value and a small n
HashMod(key, n) ==
    LET h == hash_djb2(key) IN (((h.hi % n) * (65536 % n)) + h.lo) % n

hash_key(key, hash_table_capacity) == HashMod(key, hash_table_capacity)

\* every key in the first partition
zero_partition(key, partition_count) == 0

get_partition(key, partition_count) == HashMod(key, partition_count)

(***************************************************************************)
(* lru_cache.c: a partition is                                             *)
(*   list    the recency list, head first; a node is [key, value, size]    *)
(*   buckets the chained hash table: bucket index -> chain of keys, each   *)
(*           hash node pointing at the list node of its key                *)
(*   current_bytes_size, max_bytes_capacity, hash_table_size               *)
(***************************************************************************)
RECURSIVE GrowSize(_, _)
GrowSize(size, target) ==
    IF size < target /\ size < 65536 THEN GrowSize(size * 2, target) ELSE size

\* estimated_elements / 0.75 truncated is (4 * estimated_elements) div 3
calculate_hash_table_size(max_bytes_capacity) ==
    GrowSize(16, (4 * (max_bytes_capacity \div 1024)) \div 3)

lru_cache_create(max_bytes_capacity) ==
    LET n == calculate_hash_table_size(max_bytes_capacity) + 1
    IN  [list |-> <<>>,
         buckets |-> [i \in 0..(n - 1) |-> <<>>],
         current_bytes_size |-> 0,
         max_bytes_capacity |-> max_bytes_capacity,
         hash_table_size |-> n]

\* index in a sequence of the first element satisfying equality with x, 0 if none
IndexOf(seq, x) ==
    IF \E i \in 1..Len(seq) : seq[i] = x
    THEN CHOOSE i \in 1..Len(seq) : seq[i] = x /\ \A j \in 1..(i - 1) : seq[j] # x
    ELSE 0

RemoveAt(seq, i) == SubSeq(seq, 1, i - 1) \o SubSeq(seq, i + 1, Len(seq))

\* position in the recency list of the node a hash node for key points at
NodeIndex(cache, key) ==
    IF \E i \in 1..Len(cache.list) : cache.list[i].key = key
    THEN CHOOSE i \in 1..Len(cache.list) : cache.list[i].key = key
    ELSE 0

\* the walk of the bucket chain: is there a hash node with this key
InChain(cache, key) ==
    IndexOf(cache.buckets[hash_key(key, cache.hash_table_size)], key) # 0

create_node(key, value_size, value) ==
    [key |-> key, value |-> SubSeq(value, 1, value_size), size |-> value_size]

add_to_head(list, lru_node) == <<lru_node>> \o list

\* move_to_head: nothing when already head or the only node, else unlink and
\* relink in front
\* a list on which a use does not move the node
keep_position(list, i) == list

move_to_head(list, i) ==
    IF i = 1 THEN list
    ELSE IF Len(list) = 1 THEN list
    ELSE <<list[i]>> \o RemoveAt(list, i)

lru_cache_get(cache, key) ==
    IF InChain(cache, key)
    THEN LET i == NodeIndex(cache, key)
         IN  [rc |-> 0, value |-> cache.list[i].value, size |-> cache.list[i].size,
              cache |-> [cache EXCEPT !.list = move_to_head(cache.list, i)]]
    ELSE [rc |-> -100, value |-> <<>>, size |-> 0, cache |-> cache]

\* a put that reports success and stores nothing
put_nothing(cache, key, value, value_size) == [rc |-> 0, cache |-> cache]

lru_cache_put(cache, key, value, value_size) ==
    IF cache.current_bytes_size + value_size >= cache.max_bytes_capacity
    THEN [rc |-> -900, cache |-> cache]
    ELSE LET h == hash_key(key, cache.hash_table_size)
         IN  IF InChain(cache, key)
             THEN LET i == NodeIndex(cache, key)
                      old_value_size == cache.list[i].size
                      node == create_node(key, value_size, value)
                  IN  [rc |-> 0,
                       cache |-> [cache EXCEPT
                          !.list = move_to_head([cache.list EXCEPT ![i] = node], i),
                          !.current_bytes_size = @ + (value_size - old_value_size)]]
             ELSE [rc |-> 0,
                   cache |-> [cache EXCEPT
                      !.buckets[h] = <<key>> \o @,
                      !.current_bytes_size = @ + value_size,
                      !.list = add_to_head(@, create_node(key, value_size, value))]]

lru_cache_evict(cache, key) ==
    LET h == hash_key(key, cache.hash_table_size)
        c == IndexOf(cache.buckets[h], key)
    IN  IF c = 0 THEN [rc |-> -100, cache |-> cache]
        ELSE LET i == NodeIndex(cache, key)
             IN  [rc |-> 0,
                  cache |-> [cache EXCEPT
                     !.buckets[h] = RemoveAt(@, c),
                     \* head == tail: the list is emptied, else the node is unlinked
                     !.list = IF Len(@) <= 1 THEN <<>> ELSE RemoveAt(@, i),
                     !.current_bytes_size = @ - cache.list[i].size]]

\* NULL is the empty sequence, a node is <<node>>
lru_cache_get_tail_node(cache) ==
    IF cache.list = <<>> THEN <<>> ELSE <<cache.list[Len(cache.list)]>>

lru_cache_remove_tail(cache) ==
    IF cache.list = <<>> THEN [rc |-> -1, cache |-> cache]
    ELSE LET tail_node == cache.list[Len(cache.list)]
             index == hash_key(tail_node.key, cache.hash_table_size)
             c == IndexOf(cache.buckets[index], tail_node.key)
         IN  [rc |-> 0,
              cache |-> [cache EXCEPT
                 !.list = SubSeq(@, 1, Len(@) - 1),
                 !.buckets[index] = IF c = 0 THEN @ ELSE RemoveAt(@, c),
                 !.current_bytes_size = @ - tail_node.size]]

(***************************************************************************)
(* lru_cache.c at the level of its pointers.  A partition is               *)
(*   head, tail  node addresses, 0 for NULL                                *)
(*   nodes       the allocated lru_node_t: address -> [key, value, size,   *)
(*               next, prev]                                               *)
(*   buckets     bucket index -> chain of hash nodes [key, node], first    *)
(*               hash node first                                           *)
(*   current_bytes_size, max_bytes_capacity, hash_table_size               *)
(* The operators carry the names of the functions with _p appended.        *)
(***************************************************************************)
lru_cache_create_p(max_bytes_capacity) ==
    LET n == calculate_hash_table_size(max_bytes_capacity) + 1
    IN  [head |-> 0, tail |-> 0, nodes |-> <<>>,
         buckets |-> [i \in 0..(n - 1) |-> <<>>],
         current_bytes_size |-> 0,
         max_bytes_capacity |-> max_bytes_capacity,
         hash_table_size |-> n]

\* malloc: the lowest address not in use
Malloc(nodes) ==
    CHOOSE id \in 1..(Cardinality(DOMAIN nodes) + 1) :
        id \notin DOMAIN nodes /\ \A j \in 1..(id - 1) : j \in DOMAIN nodes

\* free
Free(nodes, id) == [i \in (DOMAIN nodes) \ {id} |-> nodes[i]]

\* the first hash node of a chain with the key, 0 when the walk ends without one
ChainFind(chain, key) ==
    IF \E i \in 1..Len(chain) : chain[i].key = key
    THEN CHOOSE i \in 1..Len(chain) :
            chain[i].key = key /\ \A j \in 1..(i - 1) : chain[j].key # key
    ELSE 0

\* the first hash node of a chain pointing at the node, 0 when there is none
ChainFindNode(chain, id) ==
    IF \E i \in 1..Len(chain) : chain[i].node = id
    THEN CHOOSE i \in 1..Len(chain) :
            chain[i].node = id /\ \A j \in 1..(i - 1) : chain[j].node # id
    ELSE 0

add_to_head_p(cache, lru_node) ==
    IF cache.head = 0
    THEN [cache EXCEPT !.head = lru_node, !.tail = lru_node,
                       !.nodes[lru_node].prev = 0, !.nodes[lru_node].next = 0]
    ELSE [cache EXCEPT !.nodes[lru_node].prev = 0,
                       !.nodes[lru_node].next = cache.head,
                       !.nodes[cache.head].prev = lru_node,
                       !.head = lru_node]

\* move_to_head that leaves the list as it is
move_to_head_nowhere(cache, lru_node) == cache

move_to_head_p(cache, lru_node) ==
    LET prev == cache.nodes[lru_node].prev
        next == cache.nodes[lru_node].next
    IN  IF cache.head = lru_node THEN cache
        ELSE IF prev = 0 /\ next = 0 THEN cache
        ELSE IF cache.tail = lru_node
        THEN [cache EXCEPT !.nodes[prev].next = 0,
                           !.tail = prev,
                           !.nodes[lru_node].prev = 0,
                           !.nodes[lru_node].next = cache.head,
                           !.nodes[cache.head].prev = lru_node,
                           !.head = lru_node]
        ELSE [[cache EXCEPT !.nodes[prev].next = next,
                            !.nodes[next].prev = prev,
                            !.nodes[lru_node].prev = 0,
                            !.nodes[lru_node].next = cache.head]
                 EXCEPT !.nodes[cache.head].prev = lru_node,
                        !.head = lru_node]

lru_cache_get_p(cache, key) ==
    LET chain == cache.buckets[hash_key(key, cache.hash_table_size)]
        c == ChainFind(chain, key)
    IN  IF c = 0 THEN [rc |-> -100, value |-> <<>>, size |-> 0, cache |-> cache]
        ELSE [rc |-> 0,
              value |-> cache.nodes[chain[c].node].value,
              size |-> cache.nodes[chain[c].node].size,
              cache |-> move_to_head_p(cache, chain[c].node)]

lru_cache_put_p(cache, key, value, value_size) ==
    IF cache.current_bytes_size + value_size >= cache.max_bytes_capacity
    THEN [rc |-> -900, cache |-> cache]
    ELSE LET hash == hash_key(key, cache.hash_table_size)
             chain == cache.buckets[hash]
             c == ChainFind(chain, key)
             id == Malloc(cache.nodes)
         IN  IF c # 0
             THEN [rc |-> 0,
                   cache |-> move_to_head_p(
                      [cache EXCEPT
                         !.nodes[chain[c].node].value = SubSeq(value, 1, value_size),
                         !.nodes[chain[c].node].size = value_size,
                         !.current_bytes_size =
                            @ + (value_size - cache.nodes[chain[c].node].size)],
                      chain[c].node)]
             ELSE [rc |-> 0,
                   cache |-> add_to_head_p(
                      [cache EXCEPT
                         !.nodes = (id :> [key |-> key,
                                           value |-> SubSeq(value, 1, value_size),
                                           size |-> value_size,
                                           next |-> 0, prev |-> 0]) @@ @,
                         !.buckets[hash] = <<[key |-> key, node |-> id]>> \o @,
                         !.current_bytes_size = @ + value_size],
                      id)]

\* lru_cache_evict that unlinks and frees the list node but leaves its hash node
evict_keeps_hash_node(cache, key) ==
    LET hash == hash_key(key, cache.hash_table_size)
        chain == cache.buckets[hash]
        c == ChainFind(chain, key)
    IN  IF c = 0 THEN [rc |-> -100, cache |-> cache]
        ELSE LET node_to_remove == chain[c].node
                 n == cache.nodes[node_to_remove]
                 unlinked ==
                    IF cache.head = cache.tail
                    THEN [cache EXCEPT !.head = 0, !.tail = 0]
                    ELSE IF node_to_remove = cache.head
                    THEN [cache EXCEPT !.head = n.next, !.nodes[n.next].prev = 0]
                    ELSE IF node_to_remove = cache.tail
                    THEN [cache EXCEPT !.tail = n.prev, !.nodes[n.prev].next = 0]
                    ELSE [cache EXCEPT !.nodes[n.prev].next = n.next,
                                       !.nodes[n.next].prev = n.prev]
             IN  [rc |-> 0,
                  cache |-> [unlinked EXCEPT
                     !.current_bytes_size = @ - n.size,
                     !.nodes = Free(@, node_to_remove)]]

lru_cache_evict_p(cache, key) ==
    LET hash == hash_key(key, cache.hash_table_size)
        chain == cache.buckets[hash]
        c == ChainFind(chain, key)
    IN  IF c = 0 THEN [rc |-> -100, cache |-> cache]
        ELSE LET node_to_remove == chain[c].node
                 n == cache.nodes[node_to_remove]
                 unlinked ==
                    IF cache.head = cache.tail
                    THEN [cache EXCEPT !.head = 0, !.tail = 0]
                    ELSE IF node_to_remove = cache.head
                    THEN [cache EXCEPT !.head = n.next, !.nodes[n.next].prev = 0]
                    ELSE IF node_to_remove = cache.tail
                    THEN [cache EXCEPT !.tail = n.prev, !.nodes[n.prev].next = 0]
                    ELSE [cache EXCEPT !.nodes[n.prev].next = n.next,
                                       !.nodes[n.next].prev = n.prev]
             IN  [rc |-> 0,
                  cache |-> [unlinked EXCEPT
                     !.buckets[hash] = RemoveAt(@, c),
                     !.current_bytes_size = @ - n.size,
                     !.nodes = Free(@, node_to_remove)]]

lru_cache_get_tail_node_p(cache) == cache.tail

\* lru_cache_remove_tail without its `current_bytes_size -= size`
remove_tail_keeps_bytes(cache) ==
    IF cache.tail = 0 THEN [rc |-> -1, cache |-> cache]
    ELSE LET tail_node == cache.tail
             n == cache.nodes[tail_node]
             index == hash_key(n.key, cache.hash_table_size)
             c == ChainFindNode(cache.buckets[index], tail_node)
             unlinked ==
                IF cache.head = cache.tail
                THEN [cache EXCEPT !.head = 0, !.tail = 0]
                ELSE [cache EXCEPT !.tail = n.prev, !.nodes[n.prev].next = 0]
         IN  [rc |-> 0,
              cache |-> [unlinked EXCEPT
                 !.buckets[index] = IF c = 0 THEN @ ELSE RemoveAt(@, c),
                 !.nodes = Free(@, tail_node)]]

lru_cache_remove_tail_p(cache) ==
    IF cache.tail = 0 THEN [rc |-> -1, cache |-> cache]
    ELSE LET tail_node == cache.tail
             n == cache.nodes[tail_node]
             index == hash_key(n.key, cache.hash_table_size)
             c == ChainFindNode(cache.buckets[index], tail_node)
             unlinked ==
                IF cache.head = cache.tail
                THEN [cache EXCEPT !.head = 0, !.tail = 0]
                ELSE [cache EXCEPT !.tail = n.prev, !.nodes[n.prev].next = 0]
         IN  [rc |-> 0,
              cache |-> [unlinked EXCEPT
                 !.buckets[index] = IF c = 0 THEN @ ELSE RemoveAt(@, c),
                 !.current_bytes_size = @ - n.size,
                 !.nodes = Free(@, tail_node)]]

(***************************************************************************)
(* The file system under the CAS base path.  The SHA-256 digests of the    *)
(* model's keys differ in their first 16-hex chunk, so every key has its   *)
(* own chain of four directories:                                          *)
(*   dirs       how many directories of the chain exist, top down (0..4)   *)
(*   value_dat  <<>> when the file is absent, <<bytes>> when it exists     *)
(*   time_dat   whether time.dat exists in the leaf directory              *)
(* base is whether the base directory exists.                              *)
(***************************************************************************)
NoEntry == [dirs |-> 0, value_dat |-> <<>>, time_dat |-> FALSE]

\* stat(path) == 0 for the directory at this depth of the key's chain
DirExists(fs, key, depth) == fs.ent[key].dirs >= depth

\* remove(path) of the directory at this depth: rmdir succeeds only on an
\* existing, empty directory
RemoveDir(fs, key, depth) ==
    LET e == fs.ent[key]
        empty == IF depth = 4 THEN e.value_dat = <<>> /\ ~e.time_dat ELSE e.dirs = depth
    IN  IF e.dirs >= depth /\ empty
        THEN [rc |-> 0, fs |-> [fs EXCEPT !.ent[key].dirs = depth - 1]]
        ELSE [rc |-> -1, fs |-> fs]

\* remove(".../value.dat")
RemoveValueDat(fs, key) ==
    IF fs.ent[key].value_dat # <<>>
    THEN [rc |-> 0, fs |-> [fs EXCEPT !.ent[key].value_dat = <<>>]]
    ELSE [rc |-> -1, fs |-> fs]

\* mkdir(path, 0755) of the directory at this depth: -1 with EEXIST when it is
\* there; tolerate is the "&& errno != EEXIST" of the caller
MkDir(fs, key, depth, tolerate) ==
    IF fs.ent[key].dirs >= depth
    THEN [rc |-> IF tolerate THEN 0 ELSE -1, fs |-> fs]
    ELSE [rc |-> 0, fs |-> [fs EXCEPT !.ent[key].dirs = depth]]

(***************************************************************************)
(* cas.c.  A registry entry is the leaf path of a key, written as the key. *)
(***************************************************************************)
CAS_REGISTRY_INITIAL_CAPACITY == 100

cas_create_registry == [entries |-> <<>>, capacity |-> CAS_REGISTRY_INITIAL_CAPACITY]

\* cas_remove: value.dat (result ignored), then the four directories bottom-up,
\* stopping at the first removal that fails
cas_remove(fs, key) ==
    LET f0 == RemoveValueDat(fs, key).fs
        r4 == RemoveDir(f0, key, 4)
        r3 == RemoveDir(r4.fs, key, 3)
        r2 == RemoveDir(r3.fs, key, 2)
        r1 == RemoveDir(r2.fs, key, 1)
    IN  IF r4.rc # 0 THEN [rc |-> -1, fs |-> r4.fs]
        ELSE IF r3.rc # 0 THEN [rc |-> -1, fs |-> r3.fs]
        ELSE IF r2.rc # 0 THEN [rc |-> -1, fs |-> r2.fs]
        ELSE IF r1.rc # 0 THEN [rc |-> -1, fs |-> r1.fs]
        ELSE [rc |-> 0, fs |-> r1.fs]

cas_create_directory(fs, key) ==
    LET rm == IF DirExists(fs, key, 4) THEN cas_remove(fs, key) ELSE [rc |-> 0, fs |-> fs]
        f0 == [rm.fs EXCEPT !.base = TRUE]
        m1 == MkDir(f0, key, 1, TRUE)
        m2 == MkDir(m1.fs, key, 2, TRUE)
        m3 == MkDir(m2.fs, key, 3, TRUE)
        m4 == MkDir(m3.fs, key, 4, FALSE)
    IN  IF rm.rc # 0 THEN [rc |-> -1, fs |-> rm.fs]
        ELSE IF m4.rc # 0 THEN [rc |-> -1, fs |-> m4.fs]
        ELSE [rc |-> 0, fs |-> m4.fs]

\* a cas_put that reports success and writes nothing
cas_put_unwritten(fs, key, value, value_size) ==
    [rc |-> 0, fs |-> fs, output_path |-> key]

\* cas_put: the directories, then value.dat and time.dat
cas_put(fs, key, value, value_size) ==
    LET d == cas_create_directory(fs, key)
    IN  IF d.rc # 0 THEN [rc |-> -1, fs |-> d.fs, output_path |-> key]
        ELSE [rc |-> 0, output_path |-> key,
              fs |-> [d.fs EXCEPT !.ent[key].value_dat = <<SubSeq(value, 1, value_size)>>,
                                  !.ent[key].time_dat = TRUE]]

\* cas_get: stat value.dat, read st_size bytes
cas_get(fs, key) ==
    IF fs.ent[key].value_dat = <<>> THEN [rc |-> -1, value |-> <<>>, size |-> 0]
    ELSE [rc |-> 0, value |-> fs.ent[key].value_dat[1],
          size |-> Len(fs.ent[key].value_dat[1])]

\* remove_dir: stat, then remove
remove_dir(fs, key, depth) ==
    IF depth = 5
    THEN RemoveValueDat(fs, key)
    ELSE RemoveDir(fs, key, depth)

cas_add_to_registry(registry, path) ==
    [entries |-> Append(registry.entries, path),
     capacity |-> IF Len(registry.entries) + 1 >= registry.capacity
                  THEN registry.capacity * 2 ELSE registry.capacity]

\* cas_evict: value.dat and the four directories, every removal attempted; only
\* when all five succeed is the first matching registry entry dropped (the
\* code then frees the string of the last entry, not of the dropped one; no
\* state with time.dat in the leaf gets that far)
cas_evict(fs, registry, key) ==
    LET r5 == remove_dir(fs, key, 5)
        r4 == remove_dir(r5.fs, key, 4)
        r3 == remove_dir(r4.fs, key, 3)
        r2 == remove_dir(r3.fs, key, 2)
        r1 == remove_dir(r2.fs, key, 1)
        founded == r5.rc = 0 /\ r4.rc = 0 /\ r3.rc = 0 /\ r2.rc = 0 /\ r1.rc = 0
        i == IndexOf(registry.entries, key)
    IN  IF ~founded THEN [rc |-> -1, fs |-> r1.fs, registry |-> registry]
        ELSE [rc |-> 0, fs |-> r1.fs,
              registry |-> IF i = 0 THEN registry
                           ELSE [registry EXCEPT !.entries = RemoveAt(@, i)]]

\* a cleanup that removes the directory without emptying it first
cleanup_rmdir_only(fs) ==
    IF fs.base /\ \A k \in Keys : fs.ent[k].dirs = 0
    THEN [rc |-> 0, fs |-> [fs EXCEPT !.base = FALSE]]
    ELSE [rc |-> -1, fs |-> fs]

\* cleanup(path): opendir fails on a missing directory; otherwise every file
\* met is removed and every directory is cleaned recursively, and the
\* directory, then empty, is removed
cleanup(fs) ==
    IF ~fs.base THEN [rc |-> -1, fs |-> fs]
    ELSE [rc |-> 0, fs |-> [base |-> FALSE, ent |-> [k \in Keys |-> NoEntry]]]

\* cas_registry_destroy: the entry strings are freed, the base path cleaned
\* (registry->entries is never NULL in a created registry)
cas_registry_destroy(fs, registry) ==
    [fs |-> cleanup(fs).fs, registry |-> [registry EXCEPT !.entries = <<>>]]

(***************************************************************************)
(* pod_cache.c.  The world w the coordinator works on is the pod_cache_t   *)
(* record w.cache and the file system w.fs.                                *)
(***************************************************************************)
pod_cache_create(capacity, partitions) ==
    LET single_partition_capacity == capacity \div partitions
    IN  [total_capacity |-> capacity,
         partition_capacity |-> single_partition_capacity,
         partition_count |-> partitions,
         cas_registry |-> cas_create_registry,
         partitions |-> [i \in 0..(partitions - 1) |->
                            lru_cache_create(single_partition_capacity)]]

pod_cache_put(w, key, value, value_size) ==
    LET partition_index == get_partition(key, w.cache.partition_count)
        part == w.cache.partitions[partition_index]
    IN  Bind(lru_cache_put(part, key, value, value_size), LAMBDA put_response :
        IF put_response.rc # -900
        THEN [rc |-> partition_index,
              w |-> [w EXCEPT !.cache.partitions[partition_index] = put_response.cache]]
        ELSE Bind(lru_cache_get_tail_node(part), LAMBDA tail :
        IF tail = <<>> THEN [rc |-> -1, w |-> w]
        ELSE Bind(cas_put(w.fs, tail[1].key, tail[1].value, tail[1].size), LAMBDA cas_result :
        IF cas_result.rc # 0 THEN [rc |-> -1, w |-> [w EXCEPT !.fs = cas_result.fs]]
        ELSE Bind(lru_cache_remove_tail(part).cache, LAMBDA popped :
             Bind(lru_cache_put(popped, key, value, value_size), LAMBDA retry :
             [rc |-> IF retry.rc < 0 THEN -1 ELSE partition_index,
              w |-> [cache |-> [w.cache EXCEPT
                        !.cas_registry = cas_add_to_registry(@, cas_result.output_path),
                        !.partitions[partition_index] = retry.cache],
                     fs |-> cas_result.fs]])))))

pod_cache_get(w, key) ==
    LET partition_index == get_partition(key, w.cache.partition_count)
        part == w.cache.partitions[partition_index]
    IN  Bind(lru_cache_get(part, key), LAMBDA o_res :
        IF o_res.rc # -100
        THEN [rc |-> partition_index, value |-> o_res.value, size |-> o_res.size,
              w |-> [w EXCEPT !.cache.partitions[partition_index] = o_res.cache]]
        ELSE Bind(cas_get(w.fs, key), LAMBDA disk :
        IF disk.rc # 0 THEN [rc |-> -1, value |-> <<>>, size |-> 0, w |-> w]
        ELSE \* promoted when it fits (the result of the put is only logged), then the
             \* disk copy is evicted (the result is only logged)
             Bind(lru_cache_put(part, key, disk.value, disk.size), LAMBDA put_result :
             Bind(cas_evict(w.fs, w.cache.cas_registry, key), LAMBDA ev :
             [rc |-> 0, value |-> disk.value, size |-> disk.size,
              w |-> [cache |-> [w.cache EXCEPT
                        !.partitions[partition_index] = put_result.cache,
                        !.cas_registry = ev.registry],
                     fs |-> ev.fs]]))))

pod_cache_evict(w, key) ==
    LET partition_index == get_partition(key, w.cache.partition_count)
        part == w.cache.partitions[partition_index]
    IN  Bind(lru_cache_evict(part, key), LAMBDA memory_evict_result :
        IF memory_evict_result.rc = -100
        THEN Bind(cas_evict(w.fs, w.cache.cas_registry, key), LAMBDA ev :
             [rc |-> IF ev.rc = 0 THEN 1 ELSE 0,
              w |-> [cache |-> [w.cache EXCEPT !.cas_registry = ev.registry],
                     fs |-> ev.fs]])
        ELSE [rc |-> 1,
              w |-> [w EXCEPT !.cache.partitions[partition_index] =
                                  memory_evict_result.cache]])

\* pod_cache_destroy: the registry with the base directory, then every
\* partition's nodes
pod_cache_destroy(w) ==
    Bind(cas_registry_destroy(w.fs, w.cache.cas_registry), LAMBDA d :
    [cache |-> [w.cache EXCEPT
                   !.cas_registry = d.registry,
                   !.partitions = [i \in DOMAIN @ |->
                                      lru_cache_create(@[i].max_bytes_capacity)]],
     fs |-> d.fs])

(***************************************************************************)
(* server_tcp.c: replies and command handlers.  A reply is                 *)
(*   [t, s, b]: t the RESP type, s the text of a simple or error reply,    *)
(*   b the bytes of a bulk reply or the digits of an integer reply.        *)
(***************************************************************************)
BUFFER_SIZE == 4096

NoReply == [t |-> "none", s |-> "", b |-> <<>>]

send_ok_response(message) == [t |-> "simple", s |-> message, b |-> <<>>]

send_error_response(error) == [t |-> "error", s |-> error, b |-> <<>>]

RECURSIVE ZeroPad(_, _)
ZeroPad(digits, width) ==
    IF Len(digits) >= width THEN digits ELSE ZeroPad(<<48>> \o digits, width)

\* printf("%lu") of a long: a negative val prints as 2^64 + val, and
\* 2^64 = 18446744073 * 10^9 + 709551616 (exact for val >= -709551616)
FmtLu(val) ==
    IF val >= 0 THEN UDigits(val)
    ELSE UDigits(18446) \o UDigits(744073) \o ZeroPad(UDigits(709551616 + val), 9)

send_integer_response(val) == [t |-> "integer", s |-> "", b |-> FmtLu(val)]

\* "$%zu\r\n%s\r\n" with strlen(str); nothing is sent when the formatted text
\* does not fit the BUFFER_SIZE bytes of send_formatted_response
send_bulk_string_response(str) ==
    LET len == strlen(str)
    IN  IF 1 + Len(UDigits(len)) + 2 + len + 2 >= BUFFER_SIZE THEN NoReply
        ELSE [t |-> "bulk", s |-> "", b |-> CStr(str)]

send_null_response == [t |-> "null", s |-> "", b |-> <<>>]

\* what a char* to a malloc'ed copy of value reads as a C string: the value,
\* then whatever bytes follow the buffer, up to the first NUL
ReadPastBuffer(value, heap_tail) == value \o heap_tail \o <<0>>

\* handle_set: args[1] is the NUL-terminated copy of the bulk string
handle_set(w, key, value) ==
    Bind(value \o <<0>>, LAMBDA arg :
    Bind(pod_cache_put(w, key, arg, strlen(arg)), LAMBDA result :
        IF result.rc < 0
        THEN [reply |-> send_error_response("failed to store value"), w |-> result.w]
        ELSE [reply |-> send_ok_response("OK"), w |-> result.w]))

handle_get(w, key, heap_tail) ==
    Bind(pod_cache_get(w, key), LAMBDA result :
        IF result.rc # 0
        THEN [reply |-> send_null_response, w |-> result.w]
        ELSE [reply |-> send_bulk_string_response(ReadPastBuffer(result.value, heap_tail)),
              w |-> result.w])

handle_del(w, key) ==
    Bind(pod_cache_evict(w, key), LAMBDA evict_result :
        IF evict_result.rc # -1
        THEN [reply |-> send_integer_response(evict_result.rc), w |-> evict_result.w]
        ELSE [reply |-> send_error_response("error"), w |-> evict_result.w])

\* the result of neither pod_cache_put is looked at
handle_incr(w, key, heap_tail) ==
    Bind(pod_cache_get(w, key), LAMBDA result :
        IF result.rc # 0
        THEN [reply |-> send_integer_response(1),
              w |-> pod_cache_put(result.w, key, <<49, 0>>, 1).w]
        ELSE Bind(CStr(ReadPastBuffer(result.value, heap_tail)), LAMBDA str :
             Bind(strtol(str), LAMBDA parsed :
             IF parsed.end # Len(str) + 1
             THEN [reply |-> send_error_response("value is not an integer or out of range"),
                   w |-> result.w]
             ELSE Bind(FmtLd(parsed.val + 1) \o <<0>>, LAMBDA buffer :
                  [reply |-> send_integer_response(parsed.val + 1),
                   w |-> pod_cache_put(result.w, key, buffer, strlen(buffer)).w]))))

\* the value INCR would write back, for the guard that bounds the counter
IncrResult(w, key, heap_tail) ==
    Bind(pod_cache_get(w, key), LAMBDA result :
        IF result.rc # 0 THEN 1
        ELSE strtol(CStr(ReadPastBuffer(result.value, heap_tail))).val + 1)

(***************************************************************************)
(* resp_parser.c.  A buffer_t is [data, len, pos] with pos counted from 0; *)
(* byte i of the buffer (from 0) is data[i + 1].  A char* is the sequence  *)
(* of bytes it points at, NULL is the empty sequence.                      *)
(***************************************************************************)
MAX_ARGS == 100
MAX_STR_LEN == 1024 * 1024
MIN_BUFFER_SIZE == 4

PARSE_OK == 1
PARSE_INCOMPLETE == 0
PARSE_ERROR == -1

NULL == <<>>

buffer_init(data, len) == [data |-> data, len |-> len, pos |-> 0]

buffer_has_bytes(buf, count) == buf.pos + count <= buf.len

buffer_peek(buf) == IF buffer_has_bytes(buf, 1) THEN buf.data[buf.pos + 1] ELSE 0

\* the byte read, and the buffer advanced
buffer_read_byte(buf) ==
    IF buffer_has_bytes(buf, 1)
    THEN [byte |-> buf.data[buf.pos + 1], buf |-> [buf EXCEPT !.pos = @ + 1]]
    ELSE [byte |-> 0, buf |-> buf]

\* the offset of the first "\r\n" at or after pos, -1 for the NULL result; the
\* loop runs forward, so the first 21 offsets are looked at before the others
buffer_find_crlf(buf) ==
    LET IsCrlf(i) == buf.data[i + 1] = 13 /\ buf.data[i + 2] = 10
        near == {i \in buf.pos..(IF buf.pos + 20 < buf.len - 2 THEN buf.pos + 20
                                 ELSE buf.len - 2) : IsCrlf(i)}
        far == {i \in (buf.pos + 21)..(buf.len - 2) : IsCrlf(i)}
    IN  IF near # {} THEN CHOOSE i \in near : \A j \in near : i <= j
        ELSE IF far # {} THEN CHOOSE i \in far : \A j \in far : i <= j
        ELSE -1

buffer_skip(buf, count) ==
    [buf EXCEPT !.pos = IF buf.pos + count > buf.len THEN buf.len ELSE buf.pos + count]

\* read_integer: the text up to the CRLF must be one strtol number.  A number
\* text of 10 to 20 characters is outside every range its callers accept
\* unless it is padded with zeros or blanks, which no frame here is.
read_integer(buf) ==
    Bind(buffer_find_crlf(buf), LAMBDA crlf :
        IF crlf = -1 THEN [res |-> PARSE_INCOMPLETE, result |-> 0, buf |-> buf]
        ELSE IF crlf - buf.pos = 0 \/ crlf - buf.pos > 9
        THEN [res |-> PARSE_ERROR, result |-> 0, buf |-> buf]
        ELSE Bind(strtol(SubSeq(buf.data, buf.pos + 1, buf.len)), LAMBDA parsed :
             IF buf.pos + parsed.end - 1 # crlf
             THEN [res |-> PARSE_ERROR, result |-> 0, buf |-> buf]
             ELSE [res |-> PARSE_OK, result |-> parsed.val,
                   buf |-> [buf EXCEPT !.pos = crlf + 2]]))

\* strndup: the copy stops at the first NUL of the source
strndup_to_nul(src, len) == CStr(SubSeq(src, 1, len)) \o <<0>>

\* malloc(len + 1), memcpy, terminating NUL
strndup_safe(src, len) == SubSeq(src, 1, len) \o <<0>>

read_bulk_string(buf) ==
    IF buffer_peek(buf) # 36 THEN [res |-> PARSE_ERROR, result |-> NULL, buf |-> buf]
    ELSE Bind(read_integer(buffer_skip(buf, 1)), LAMBDA n :
        IF n.res # PARSE_OK THEN [res |-> n.res, result |-> NULL, buf |-> n.buf]
        ELSE IF n.result = -1 THEN [res |-> PARSE_OK, result |-> NULL, buf |-> n.buf]
        ELSE IF n.result < 0 \/ n.result > MAX_STR_LEN
        THEN [res |-> PARSE_ERROR, result |-> NULL, buf |-> n.buf]
        ELSE IF ~buffer_has_bytes(n.buf, n.result + 2)
        THEN [res |-> PARSE_INCOMPLETE, result |-> NULL, buf |-> n.buf]
        ELSE IF n.buf.data[n.buf.pos + n.result + 1] # 13
                \/ n.buf.data[n.buf.pos + n.result + 2] # 10
        THEN [res |-> PARSE_ERROR, result |-> NULL, buf |-> n.buf]
        ELSE [res |-> PARSE_OK,
              result |-> strndup_safe(SubSeq(n.buf.data, n.buf.pos + 1, n.buf.len), n.result),
              buf |-> buffer_skip(n.buf, n.result + 2)])

RECURSIVE ReadElements(_, _)
\* the loop `for (i = 0; i < num_elements; i++) read_bulk_string`: the elements
\* are read one after the other from where the one before ended, and the first
\* one that is not PARSE_OK ends the loop with its result.  The loop is unrolled
\* as its first half followed by its second half, which reads the same elements
\* in the same order.
ReadElements(buf, num_elements) ==
    IF num_elements = 0 THEN [res |-> PARSE_OK, elements |-> <<>>, buf |-> buf]
    ELSE IF num_elements = 1
    THEN Bind(read_bulk_string(buf), LAMBDA e :
            IF e.res # PARSE_OK THEN [res |-> e.res, elements |-> <<>>, buf |-> e.buf]
            ELSE [res |-> PARSE_OK, elements |-> <<e.result>>, buf |-> e.buf])
    ELSE Bind(ReadElements(buf, num_elements \div 2), LAMBDA a :
            IF a.res # PARSE_OK THEN a
            ELSE Bind(ReadElements(a.buf, num_elements - (num_elements \div 2)),
                      LAMBDA b :
                        IF b.res # PARSE_OK THEN b
                        ELSE [res |-> PARSE_OK,
                              elements |-> a.elements \o b.elements,
                              buf |-> b.buf]))

NoCmd == [command |-> NULL, args |-> <<>>, arg_count |-> 0]

\* resp_parse: rc is the number of bytes consumed, 0 (incomplete) or -1 (error)
resp_parse(data, len) ==
    IF len < MIN_BUFFER_SIZE THEN [rc |-> PARSE_INCOMPLETE, out |-> NoCmd]
    ELSE IF data[1] # 42 THEN [rc |-> PARSE_ERROR, out |-> NoCmd]
    ELSE Bind(read_integer(buffer_read_byte(buffer_init(data, len)).buf), LAMBDA n :
        IF n.res # PARSE_OK THEN [rc |-> n.res, out |-> NoCmd]
        ELSE IF n.result <= 0 \/ n.result > MAX_ARGS THEN [rc |-> PARSE_ERROR, out |-> NoCmd]
        ELSE Bind(ReadElements(n.buf, n.result), LAMBDA r :
             IF r.res # PARSE_OK THEN [rc |-> r.res, out |-> NoCmd]
             ELSE [rc |-> r.buf.pos,
                   out |-> [command |-> r.elements[1],
                            args |-> Tail(r.elements),
                            arg_count |-> n.result - 1]]))

(***************************************************************************)
(* Command names and dispatch.  Names are byte strings: "DEL" is           *)
(* <<68, 69, 76>>.                                                         *)
(***************************************************************************)
toupper(c) == IF c \in 97..122 THEN c - 32 ELSE c

str_toupper(str) == [i \in 1..Len(str) |-> toupper(str[i])]

\* PING, QUIT, SET, GET, DEL, CLIENT, INCR
command_table ==
    << [name |-> <<80, 73, 78, 71>>, value |-> "RESP_PING"],
       [name |-> <<81, 85, 73, 84>>, value |-> "RESP_QUIT"],
       [name |-> <<83, 69, 84>>, value |-> "RESP_SET"],
       [name |-> <<71, 69, 84>>, value |-> "RESP_GET"],
       [name |-> <<68, 69, 76>>, value |-> "RESP_DEL"],
       [name |-> <<67, 76, 73, 69, 78, 84>>, value |-> "RESP_CLIENT"],
       [name |-> <<73, 78, 67, 82>>, value |-> "RESP_INCR"] >>

resp_decode_command(command) ==
    IF command = NULL THEN "RESP_UNKNOW"
    ELSE IF strlen(command) > 32 THEN "RESP_UNKNOW"
    ELSE Bind(str_toupper(CStr(command)), LAMBDA upper_cmd :
        IF \E i \in 1..Len(command_table) : command_table[i].name = upper_cmd
        THEN command_table[CHOOSE i \in 1..Len(command_table) :
                              command_table[i].name = upper_cmd].value
        ELSE "RESP_UNKNOW")

\* the dispatch table up to its sentinel
command_handlers ==
    << [type |-> "RESP_PING", name |-> "PING", handler |-> "handle_ping"],
       [type |-> "RESP_SET", name |-> "SET", handler |-> "handle_set"],
       [type |-> "RESP_GET", name |-> "GET", handler |-> "handle_get"],
       [type |-> "RESP_QUIT", name |-> "QUIT", handler |-> "handle_quit"],
       [type |-> "RESP_CLIENT", name |-> "CLIENT", handler |-> "handle_client_cmd"],
       [type |-> "RESP_INCR", name |-> "INCR", handler |-> "handle_incr"],
       [type |-> "RESP_DEL", name |-> "DEL", handler |-> "handle_del"],
       [type |-> "RESP_UNLINK", name |-> "UNLINK", handler |-> "handle_del"] >>

\* a handler's outcome: its reply, the world it leaves, and result, which is
\* negative when the connection is to be closed
Outcome(reply, w) ==
    [reply |-> reply, w |-> w, result |-> IF reply.t = "none" THEN -1 ELSE 1,
     killed |-> FALSE]

\* the handler reads through a NULL pointer: address 0 is not mapped, the
\* process is killed by SIGSEGV and the handler never returns
Killed(w) == [reply |-> NoReply, w |-> w, result |-> -1, killed |-> TRUE]

handle_ping(w) == Outcome(send_ok_response("PONG"), w)

\* a QUIT handler that replies and asks for no disconnect
quit_keeps_connection(w) == Outcome(send_ok_response("BYE"), w)

\* the reply is sent and -1 returned
handle_quit(w) ==
    [reply |-> send_ok_response("BYE"), w |-> w, result |-> -1, killed |-> FALSE]

\* send_ok_response(socket, NULL): message ?: "OK"
handle_client_cmd(w) == Outcome(send_ok_response("OK"), w)

\* the call through the handler pointer: the argument count check each handler
\* starts with, then the handler on its key and value arguments.  An argument
\* that is NULL (a null bulk string) is passed on as it is: handle_set calls
\* strlen on the value, and pod_cache_put, pod_cache_get and pod_cache_evict
\* return -1 for a NULL key before anything else.
CallHandler(handler, w, cmd, heap_tail) ==
    CASE handler = "handle_ping" -> handle_ping(w)
      [] handler = "handle_quit" -> handle_quit(w)
      [] handler = "handle_client_cmd" -> handle_client_cmd(w)
      [] handler = "handle_set" ->
            IF cmd.arg_count < 2
            THEN Outcome(send_error_response("wrong number of arguments for 'SET' command"), w)
            ELSE IF cmd.args[2] = NULL THEN Killed(w)
            ELSE IF cmd.args[1] = NULL
            THEN Outcome(send_error_response("failed to store value"), w)
            ELSE Bind(handle_set(w, CStr(cmd.args[1]), CStr(cmd.args[2])),
                      LAMBDA r : Outcome(r.reply, r.w))
      [] handler = "handle_get" ->
            IF cmd.arg_count < 1
            THEN Outcome(send_error_response("wrong number of arguments for 'GET' command"), w)
            ELSE IF cmd.args[1] = NULL THEN Outcome(send_null_response, w)
            ELSE Bind(handle_get(w, CStr(cmd.args[1]), heap_tail),
                      LAMBDA r : Outcome(r.reply, r.w))
      [] handler = "handle_del" ->
            IF cmd.arg_count < 1
            THEN Outcome(send_error_response(
                           "wrong number of arguments for 'DEL' or 'UNLINK' command"), w)
            ELSE IF cmd.args[1] = NULL THEN Outcome(send_error_response("error"), w)
            ELSE Bind(handle_del(w, CStr(cmd.args[1])),
                      LAMBDA r : Outcome(r.reply, r.w))
      [] handler = "handle_incr" ->
            IF cmd.arg_count < 1
            THEN Outcome(send_error_response("wrong number of arguments for 'INCR' command"), w)
            ELSE IF cmd.args[1] = NULL THEN Outcome(send_integer_response(1), w)
            ELSE Bind(handle_incr(w, CStr(cmd.args[1]), heap_tail),
                      LAMBDA r : Outcome(r.reply, r.w))

dispatch_command(w, cmd, heap_tail) ==
    Bind(resp_decode_command(cmd.command), LAMBDA cmd_type :
        IF \E i \in 1..Len(command_handlers) : command_handlers[i].type = cmd_type
        THEN CallHandler(command_handlers[CHOOSE i \in 1..Len(command_handlers) :
                             command_handlers[i].type = cmd_type].handler,
                         w, cmd, heap_tail)
        ELSE Outcome(send_error_response("unknown command"), w))

(***************************************************************************)
(* client_handler_thread: one pass of the receive loop.  A reply written   *)
(* to the socket is kept with the command it answers (NoCmd for a reply    *)
(* that answers no parsed command).                                        *)
(***************************************************************************)
MAX_COMMAND_SIZE == BUFFER_SIZE * 4

buffer_append(buf, data) ==
    IF Len(buf) + Len(data) > MAX_COMMAND_SIZE
    THEN [ok |-> FALSE, buf |-> buf]
    ELSE [ok |-> TRUE, buf |-> buf \o data]

\* a consume that leaves the buffer as it is
consume_nothing(buf, bytes) == buf

buffer_consume(buf, bytes) ==
    IF bytes >= Len(buf) THEN <<>> ELSE SubSeq(buf, bytes + 1, Len(buf))

\* send(): a reply of type "none" was never written
Written(sent, reply, cmd) ==
    IF reply.t = "none" THEN sent ELSE Append(sent, [reply |-> reply, cmd |-> cmd])

RECURSIVE ProcessCommands(_, _, _, _, _)
\* while (processed < cmd_buf.used): parse, dispatch, reply
ProcessCommands(w, buf, processed, sent, heap_tail) ==
    IF processed >= Len(buf)
    THEN [w |-> w, processed |-> processed, sent |-> sent, open |-> TRUE,
          killed |-> FALSE]
    ELSE Bind(resp_parse(SubSeq(buf, processed + 1, Len(buf)), Len(buf) - processed),
         LAMBDA parsed :
         IF parsed.rc > 0
         THEN Bind(dispatch_command(w, parsed.out, heap_tail), LAMBDA d :
              IF d.result < 0
              THEN [w |-> d.w, processed |-> processed,
                    sent |-> Written(sent, d.reply, parsed.out), open |-> FALSE,
                    killed |-> d.killed]
              ELSE ProcessCommands(d.w, buf, processed + parsed.rc,
                                   Written(sent, d.reply, parsed.out), heap_tail))
         ELSE IF parsed.rc = 0
         THEN [w |-> w, processed |-> processed, sent |-> sent, open |-> TRUE,
               killed |-> FALSE]
         ELSE [w |-> w, processed |-> Len(buf),
               sent |-> Written(sent, send_error_response("protocol error"), NoCmd),
               open |-> TRUE, killed |-> FALSE])

\* the body of the receive loop for the bytes one recv() returned
client_handler_thread(w, cmd_buf, sent, recv_buffer, heap_tail) ==
    Bind(buffer_append(cmd_buf, recv_buffer), LAMBDA a :
        IF ~a.ok
        THEN [w |-> w, cmd_buf |-> <<>>,
              sent |-> Written(sent, send_error_response("command too long"), NoCmd),
              open |-> TRUE, killed |-> FALSE]
        ELSE Bind(ProcessCommands(w, a.buf, 0, sent, heap_tail), LAMBDA r :
             [w |-> r.w, cmd_buf |-> buffer_consume(a.buf, r.processed),
              sent |-> r.sent, open |-> r.open, killed |-> r.killed]))

(***************************************************************************)
(* State.                                                                  *)
(*   cache   the pod_cache_t                                               *)
(*   fs      the file system under the CAS base path                       *)
(*   last    the command handled last, with its reply                      *)
(*   lastSet per key, the value of its last SET that replied +OK and was   *)
(*           not followed by a DEL or INCR of the key (<<>> when none,     *)
(*           else <<value>>)                                               *)
(*   conn    one client connection: the bytes in its command buffer, the   *)
(*           replies written to its socket, whether it is open             *)
(*   lru     one partition at the level of its pointers                    *)
(*   thr     the client threads inside a coordinator operation             *)
(*   prs     a buffer handed to resp_parse and what the call returned      *)
(*   used    the keys held in memory, ordered by their last use             *)
(* conn, lru, thr and prs are Unused in the behaviours that do not involve *)
(* them.                                                                   *)
(***************************************************************************)
VARIABLES cache, fs, last, lastSet, conn, lru, thr, prs, used

vars == <<cache, fs, last, lastSet, conn, lru, thr, prs, used>>

Unused == <<>>

World == [cache |-> cache, fs |-> fs]

NoCommand == [op |-> "none", key |-> <<>>, val |-> <<>>, reply |-> NoReply]

OK == send_ok_response("OK")

Init ==
    /\ \E n \in 1..MaxPartitions : cache = pod_cache_create(UnitCapacity * n, n)
    /\ fs = [base |-> FALSE, ent |-> [k \in Keys |-> NoEntry]]
    /\ last = NoCommand
    /\ lastSet = [k \in Keys |-> <<>>]
    /\ conn = Unused /\ lru = Unused /\ thr = Unused /\ prs = Unused
    /\ used = <<>>

\* the handler's result becomes the state, the command and its reply the
\* history; used lists the keys held in memory by their last use (a GET or INCR
\* that found or brought the key in memory, a SET that stored it), the latest
\* first
Handled(op, key, val, r) ==
    /\ cache' = r.w.cache
    /\ fs' = r.w.fs
    /\ last' = [op |-> op, key |-> key, val |-> val, reply |-> r.reply]
    /\ used' = SelectSeq(IF op \in {"GET", "INCR"} \/ (op = "SET" /\ r.reply = OK)
                         THEN <<key>> \o SelectSeq(used, LAMBDA k : k # key)
                         ELSE used,
                         LAMBDA k : NodeIndex(r.w.cache.partitions[
                                        get_partition(k, r.w.cache.partition_count)], k) # 0)
    /\ UNCHANGED <<conn, lru, thr, prs>>

Set(key, value) ==
    \E r \in {handle_set(World, key, value)} :
        /\ Handled("SET", key, value, r)
        /\ lastSet' = IF r.reply = OK THEN [lastSet EXCEPT ![key] = <<value>>] ELSE lastSet

Get(key, heap_tail) ==
    \E r \in {handle_get(World, key, heap_tail)} :
        /\ Handled("GET", key, <<>>, r)
        /\ UNCHANGED lastSet

Del(key) ==
    \E r \in {handle_del(World, key)} :
        /\ Handled("DEL", key, <<>>, r)
        /\ lastSet' = [lastSet EXCEPT ![key] = <<>>]

Incr(key, heap_tail) ==
    /\ IncrResult(World, key, heap_tail) <= MaxCounter
    /\ \E r \in {handle_incr(World, key, heap_tail)} :
        /\ Handled("INCR", key, <<>>, r)
        /\ lastSet' = [lastSet EXCEPT ![key] = <<>>]

Next ==
    \/ \E key \in Keys, value \in SetValues : Set(key, value)
    \/ \E key \in Keys, heap_tail \in HeapTails : Get(key, heap_tail)
    \/ \E key \in Keys : Del(key)
    \/ \E key \in Keys, heap_tail \in HeapTails : Incr(key, heap_tail)

Spec == Init /\ [][Next]_vars

(***************************************************************************)
(* The same commands followed by the teardown of the server: cleanup_server *)
(* destroys the cache once, after which no handler runs.                   *)
(***************************************************************************)
Destroy ==
    /\ \E w \in {pod_cache_destroy(World)} :
          /\ cache' = w.cache
          /\ fs' = w.fs
    /\ last' = [NoCommand EXCEPT !.op = "destroy"]
    /\ used' = <<>>
    /\ UNCHANGED <<lastSet, conn, lru, thr, prs>>

TearNext ==
    \/ last.op # "destroy" /\ Next
    \/ last.op # "destroy" /\ Destroy

TearSpec == Init /\ [][TearNext]_vars

(***************************************************************************)
(* One connection on the wire.  conn is                                    *)
(*   stream  the bytes the client has written and no recv() returned yet   *)
(*   frames  the commands the client framed, in order (element vectors)    *)
(*   cmd_buf the command buffer of the handler thread                      *)
(*   sent    the replies written to the socket, each with its command      *)
(*   open    FALSE once the handler thread has left its loop               *)
(***************************************************************************)
CRLF == <<13, 10>>

RECURSIVE EncodeElements(_)
EncodeElements(elems) ==
    IF elems = <<>> THEN <<>>
    ELSE <<36>> \o UDigits(Len(Head(elems))) \o CRLF \o Head(elems) \o CRLF
         \o EncodeElements(Tail(elems))

\* the frame of a command: "*<n>\r\n", then "$<len>\r\n<bytes>\r\n" per element
Frame(elems) == <<42>> \o UDigits(Len(elems)) \o CRLF \o EncodeElements(elems)

\* SET a xxx, SET b xxx, GET a, INCR a, DEL a, del a, UNLINK a, FOO a,
\* GET without a key, PING, QUIT
WireCommands ==
    { << <<83, 69, 84>>, <<97>>, <<120, 120, 120>> >>,
      << <<83, 69, 84>>, <<98>>, <<120, 120, 120>> >>,
      << <<71, 69, 84>>, <<97>> >>,
      << <<73, 78, 67, 82>>, <<97>> >>,
      << <<68, 69, 76>>, <<97>> >>,
      << <<100, 101, 108>>, <<97>> >>,
      << <<85, 78, 76, 73, 78, 75>>, <<97>> >>,
      << <<70, 79, 79>>, <<97>> >>,
      << <<71, 69, 84>> >>,
      << <<80, 73, 78, 71>> >>,
      << <<81, 85, 73, 84>> >> }

\* how many bytes a recv() may return short of everything in flight: up to
\* the end of the array header, the end of the first element, the end of the
\* array header that follows the 21 bytes of INCR a
RecvCuts == {4, 13, 25}

RecvSizes(stream) == {Len(stream)} \cup {n \in RecvCuts : n < Len(stream)}

RECURSIVE AfterSets(_, _)
\* the world after the SET commands of earlier connections
AfterSets(w, sets) ==
    IF sets = <<>> THEN w
    ELSE AfterSets(handle_set(w, Head(sets)[1], Head(sets)[2]).w, Tail(sets))

PriorSets ==
    LET one == {<<k, <<120, 120, 120>> >> : k \in Keys}
    IN  UNION {[1..n -> one] : n \in 0..MaxPriors}

WireInit ==
    /\ \E n \in 1..MaxPartitions, sets \in PriorSets :
          \E w \in {AfterSets([cache |-> pod_cache_create(UnitCapacity * n, n),
                              fs |-> [base |-> FALSE, ent |-> [k \in Keys |-> NoEntry]]],
                             sets)} :
             cache = w.cache /\ fs = w.fs
    /\ conn = [stream |-> <<>>, frames |-> <<>>, cmd_buf |-> <<>>, sent |-> <<>>,
               open |-> TRUE]
    /\ last = NoCommand
    /\ lastSet = [k \in Keys |-> <<>>]
    /\ lru = Unused /\ thr = Unused /\ prs = Unused /\ used = Unused

\* the client writes one more command frame; it may do so after the server
\* has left the receive loop, and nothing reads those bytes
ClientSend(elems) ==
    /\ Len(conn.frames) < MaxFrames
    /\ conn' = [conn EXCEPT !.stream = @ \o Frame(elems), !.frames = Append(@, elems)]
    /\ UNCHANGED <<cache, fs, last, lastSet, lru, thr, prs, used>>

\* recv() returns the first n bytes in flight and the loop body handles them
Recv(n, heap_tail) ==
    /\ conn.open
    /\ n > 0
    /\ \E r \in {client_handler_thread(World, conn.cmd_buf, conn.sent,
                                        SubSeq(conn.stream, 1, n), heap_tail)} :
          /\ cache' = r.w.cache
          /\ fs' = r.w.fs
          /\ conn' = [conn EXCEPT !.stream = SubSeq(@, n + 1, Len(@)),
                                  !.cmd_buf = r.cmd_buf,
                                  !.sent = r.sent,
                                  !.open = r.open]
    /\ UNCHANGED <<last, lastSet, lru, thr, prs, used>>

\* the resp_command_t of a frame: its elements as C strings
CommandOf(elems) ==
    [command |-> elems[1] \o <<0>>,
     args |-> [j \in 1..(Len(elems) - 1) |-> elems[j + 1] \o <<0>>],
     arg_count |-> Len(elems) - 1]

WireNext ==
    \/ \E elems \in WireCommands : ClientSend(elems)
    \/ \E n \in RecvSizes(conn.stream), heap_tail \in HeapTails : Recv(n, heap_tail)

WireSpec == WireInit /\ [][WireNext]_vars

(***************************************************************************)
(* Start-up configuration: initialize_cache reads PODCACHE_SIZE and         *)
(* PODCACHE_PARTITIONS and computes the capacities.  A size_t is kept as    *)
(* three limbs <<a, b, c>> standing for a * 2^40 + b * 2^20 + c, with       *)
(* b, c < 2^20.  An environment variable is NULL when unset, else its text. *)
(***************************************************************************)
get_env_int(env_str, default_value, min_val, max_val) ==
    IF env_str = NULL THEN default_value
    ELSE Bind(strtol(env_str), LAMBDA parsed :
        IF parsed.end # Len(env_str) + 1 \/ parsed.val < min_val \/ parsed.val > max_val
        THEN default_value
        ELSE parsed.val)

\* ((mb) * 1024 * 1024) on an int, converted to size_t.  From 2048 on the
\* product does not fit an int: signed overflow, which either wraps to the
\* low 32 bits (then sign-extended by the conversion) or is computed wide.
MB_TO_BYTES(mb, wide) ==
    IF mb * 1024 <= 2147483647 \div 1024 \/ wide THEN <<0, mb, 0>>
    ELSE Bind(mb % 4096, LAMBDA low :
         IF low < 2048 THEN <<0, low, 0>>
         ELSE <<16777215, 1048576 - 4096 + low, 0>>)

\* capacity / partitions on size_t
DivLimbs(x, d) ==
    Bind((x[1] % d) * 1048576 + x[2], LAMBDA mid :
    Bind((mid % d) * 1048576 + x[3], LAMBDA low :
        <<x[1] \div d, mid \div d, low \div d>>))

\* the capacities pod_cache_create is called with and those it stores
initialize_cache(size_env, partitions_env, wide) ==
    Bind(get_env_int(size_env, 100, 1, 4096), LAMBDA cache_size_mb :
    Bind(get_env_int(partitions_env, 1, 1, 64), LAMBDA partitions :
    Bind(MB_TO_BYTES(cache_size_mb, wide), LAMBDA capacity :
        [total_capacity |-> capacity,
         partition_capacity |-> DivLimbs(capacity, partitions),
         partition_count |-> partitions])))

SizeEnvs ==
    {NULL, <<97, 98, 99>>}
       \cup {UDigits(n) : n \in {0, 1, 2, 100, 1024, 2047, 2048, 3000, 4095, 4096, 4097}}

PartitionEnvs == {NULL} \cup {UDigits(n) : n \in {0, 1, 2, 3, 7, 63, 64, 65}}

SizeInit ==
    /\ cache = Unused
    /\ last = NoCommand
    /\ fs = Unused /\ lastSet = Unused /\ conn = Unused /\ lru = Unused
    /\ thr = Unused /\ prs = Unused /\ used = Unused

\* the server starts with the two variables as given
Start(size_env, partitions_env, wide) ==
    /\ cache = Unused
    /\ cache' = initialize_cache(size_env, partitions_env, wide)
    /\ last' = [NoCommand EXCEPT !.op = "start", !.key = size_env, !.val = partitions_env]
    /\ UNCHANGED <<fs, lastSet, conn, lru, thr, prs, used>>

SizeNext ==
    \E size_env \in SizeEnvs, partitions_env \in PartitionEnvs, wide \in BOOLEAN :
       Start(size_env, partitions_env, wide)

SizeSpec == SizeInit /\ [][SizeNext]_vars

(***************************************************************************)
(* Shutdown.  thr holds g_server.running, where the main thread is (in the  *)
(* accept loop, returned from it, inside pod_cache_destroy run by the       *)
(* atexit handler cleanup_server, or gone with the process), whether the    *)
(* cache is live, being destroyed or freed, and for each handler thread     *)
(* where it is: not created, at the loop condition, blocked in recv(),      *)
(* inside the dispatch of a command (a cache operation), or ended.  The     *)
(* handler threads are detached and nothing waits for them.                 *)
(***************************************************************************)
MaxHandlers == 3

ShutInit ==
    /\ thr = [running |-> TRUE, main |-> "accept", cache |-> "live",
              h |-> [i \in 1..MaxHandlers |-> "none"]]
    /\ cache = Unused /\ fs = Unused /\ last = Unused /\ lastSet = Unused
    /\ conn = Unused /\ lru = Unused /\ prs = Unused /\ used = Unused

\* accept() returns a connection: a detached handler thread is created
Accept(i) ==
    /\ thr.main = "accept" /\ thr.running
    /\ thr.h[i] = "none"
    /\ thr' = [thr EXCEPT !.h[i] = "loop"]
    /\ UNCHANGED <<cache, fs, last, lastSet, conn, lru, prs, used>>

\* SIGINT or SIGTERM: running = 0 and the listening socket is closed
signal_handler ==
    /\ thr.main = "accept" /\ thr.running
    /\ thr' = [thr EXCEPT !.running = FALSE]
    /\ UNCHANGED <<cache, fs, last, lastSet, conn, lru, prs, used>>

\* accept() fails on the closed socket, the loop ends, tcp_server_start and
\* main return and exit() calls the atexit handler
AcceptFails ==
    /\ thr.main = "accept" /\ ~thr.running
    /\ thr' = [thr EXCEPT !.main = "atexit"]
    /\ UNCHANGED <<cache, fs, last, lastSet, conn, lru, prs, used>>

\* cleanup_server enters pod_cache_destroy
cleanup_server ==
    /\ thr.main = "atexit"
    /\ thr' = [thr EXCEPT !.main = "pod_cache_destroy", !.cache = "destroying"]
    /\ UNCHANGED <<cache, fs, last, lastSet, conn, lru, prs, used>>

\* pod_cache_destroy returns, the process ends and its threads with it
ProcessExit ==
    /\ thr.main = "pod_cache_destroy"
    /\ thr' = [thr EXCEPT !.main = "exited", !.cache = "freed",
                          !.h = [i \in 1..MaxHandlers |->
                                    IF thr.h[i] = "none" THEN "none" ELSE "ended"]]
    /\ UNCHANGED <<cache, fs, last, lastSet, conn, lru, prs, used>>

\* while (g_server.running && recv(...) > 0): the flag is read, then recv blocks
LoopTest(i) ==
    /\ thr.main # "exited"
    /\ thr.h[i] = "loop"
    /\ thr' = [thr EXCEPT !.h[i] = IF thr.running THEN "recv" ELSE "ended"]
    /\ UNCHANGED <<cache, fs, last, lastSet, conn, lru, prs, used>>

\* recv() returns the bytes of a command, which is dispatched, or 0 when the
\* client has closed the connection
RecvReturns(i, closed) ==
    /\ thr.main # "exited"
    /\ thr.h[i] = "recv"
    /\ thr' = [thr EXCEPT !.h[i] = IF closed THEN "ended" ELSE "dispatch_command"]
    /\ UNCHANGED <<cache, fs, last, lastSet, conn, lru, prs, used>>

\* the handler of the command returns
Dispatched(i) ==
    /\ thr.main # "exited"
    /\ thr.h[i] = "dispatch_command"
    /\ thr' = [thr EXCEPT !.h[i] = "loop"]
    /\ UNCHANGED <<cache, fs, last, lastSet, conn, lru, prs, used>>

ShutNext ==
    \/ \E i \in 1..MaxHandlers : Accept(i)
    \/ signal_handler
    \/ AcceptFails
    \/ cleanup_server
    \/ ProcessExit
    \/ \E i \in 1..MaxHandlers : LoopTest(i)
    \/ \E i \in 1..MaxHandlers, closed \in BOOLEAN : RecvReturns(i, closed)
    \/ \E i \in 1..MaxHandlers : Dispatched(i)

ShutSpec == ShutInit /\ [][ShutNext]_vars

(***************************************************************************)
(* The commands of Spec on counters that start below zero: SET stores "-2" *)
(* and INCR counts up from there, through -1 and 0.                        *)
(***************************************************************************)
SignValues == {<<45, 50>>}

SignNext ==
    \/ \E key \in Keys, value \in SignValues : Set(key, value)
    \/ \E key \in Keys, heap_tail \in HeapTails : Get(key, heap_tail)
    \/ \E key \in Keys : Del(key)
    \/ \E key \in Keys, heap_tail \in HeapTails : Incr(key, heap_tail)

SignSpec == Init /\ [][SignNext]_vars

(***************************************************************************)
(* One connection whose client has written a single SET a <value> frame,   *)
(* the value a run of "x" of 3 bytes, of 16355 bytes (a frame of 16385      *)
(* bytes, one more than MAX_COMMAND_SIZE) or of 20 KiB, all within          *)
(* MAX_STR_LEN.  recv() returns at most the BUFFER_SIZE bytes of            *)
(* recv_buffer, or fewer; the handler thread calls recv() again as long as  *)
(* the connection is open, so a read of bytes in flight always happens.     *)
(***************************************************************************)
LongValueSizes == {3, 16355, 20 * 1024}

LongCuts == {512, 1024}

LongRecvSizes(stream) ==
    {IF Len(stream) < BUFFER_SIZE THEN Len(stream) ELSE BUFFER_SIZE}
       \cup {n \in LongCuts : n < Len(stream)}

LongInit ==
    /\ \E n \in 1..MaxPartitions : cache = pod_cache_create(UnitCapacity * n, n)
    /\ fs = [base |-> FALSE, ent |-> [k \in Keys |-> NoEntry]]
    /\ \E size \in LongValueSizes :
       \E elems \in {<< <<83, 69, 84>>, <<97>>, [i \in 1..size |-> 120] >>} :
          conn = [stream |-> Frame(elems), frames |-> <<elems>>, cmd_buf |-> <<>>,
                  sent |-> <<>>, open |-> TRUE]
    /\ last = NoCommand
    /\ lastSet = [k \in Keys |-> <<>>]
    /\ lru = Unused /\ thr = Unused /\ prs = Unused /\ used = Unused

LongNext == \E n \in LongRecvSizes(conn.stream), heap_tail \in HeapTails : Recv(n, heap_tail)

LongSpec == LongInit /\ [][LongNext]_vars /\ WF_vars(LongNext)

(***************************************************************************)
(* One connection whose frames may hold null bulk strings ("$-1\r\n").  A  *)
(* frame is given by its elements, <<>> for a null element and <<bytes>>    *)
(* for a bulk string; each read returns everything in flight.  last.op is   *)
(* "SIGSEGV" once the server process was killed.                            *)
(***************************************************************************)
RECURSIVE EncodeNullable(_)
EncodeNullable(elems) ==
    IF elems = <<>> THEN <<>>
    ELSE (IF Head(elems) = <<>> THEN <<36, 45, 49>> \o CRLF
          ELSE <<36>> \o UDigits(Len(Head(elems)[1])) \o CRLF \o Head(elems)[1] \o CRLF)
         \o EncodeNullable(Tail(elems))

NullableFrame(elems) == <<42>> \o UDigits(Len(elems)) \o CRLF \o EncodeNullable(elems)

\* a null name; GET, DEL, INCR of a null key; SET of a null key; SET a with a
\* null value; PING; SET a xxx; GET a
NullableCommands ==
    { << <<>> >>,
      << << <<71, 69, 84>> >>, <<>> >>,
      << << <<68, 69, 76>> >>, <<>> >>,
      << << <<73, 78, 67, 82>> >>, <<>> >>,
      << << <<83, 69, 84>> >>, <<>>, << <<120, 120, 120>> >> >>,
      << << <<83, 69, 84>> >>, << <<97>> >>, <<>> >>,
      << << <<80, 73, 78, 71>> >> >>,
      << << <<83, 69, 84>> >>, << <<97>> >>, << <<120, 120, 120>> >> >>,
      << << <<71, 69, 84>> >>, << <<97>> >> >> }

NullInit ==
    /\ \E n \in 1..MaxPartitions, sets \in PriorSets :
          \E w \in {AfterSets([cache |-> pod_cache_create(UnitCapacity * n, n),
                              fs |-> [base |-> FALSE, ent |-> [k \in Keys |-> NoEntry]]],
                             sets)} :
             cache = w.cache /\ fs = w.fs
    /\ conn = [stream |-> <<>>, frames |-> <<>>, cmd_buf |-> <<>>, sent |-> <<>>,
               open |-> TRUE]
    /\ last = NoCommand
    /\ lastSet = [k \in Keys |-> <<>>]
    /\ lru = Unused /\ thr = Unused /\ prs = Unused /\ used = Unused

\* the client writes one more frame while the server runs
NullSend(elems) ==
    /\ last.op # "SIGSEGV"
    /\ Len(conn.frames) < MaxFrames
    /\ conn' = [conn EXCEPT !.stream = @ \o NullableFrame(elems),
                            !.frames = Append(@, elems)]
    /\ UNCHANGED <<cache, fs, last, lastSet, lru, thr, prs, used>>

\* recv() returns the bytes in flight and the loop body handles them
NullRecv(heap_tail) ==
    /\ last.op # "SIGSEGV"
    /\ conn.open
    /\ conn.stream # <<>>
    /\ \E r \in {client_handler_thread(World, conn.cmd_buf, conn.sent, conn.stream,
                                        heap_tail)} :
          /\ cache' = r.w.cache
          /\ fs' = r.w.fs
          /\ conn' = [conn EXCEPT !.stream = <<>>,
                                  !.cmd_buf = r.cmd_buf,
                                  !.sent = r.sent,
                                  !.open = r.open]
          /\ last' = [NoCommand EXCEPT !.op = IF r.killed THEN "SIGSEGV" ELSE "recv"]
    /\ UNCHANGED <<lastSet, lru, thr, prs, used>>

NullNext ==
    \/ \E elems \in NullableCommands : NullSend(elems)
    \/ \E heap_tail \in HeapTails : NullRecv(heap_tail)

NullSpec == NullInit /\ [][NullNext]_vars

(***************************************************************************)
(* One partition driven through its interface, at the level of pointers:   *)
(* lru holds the partition and what the last call was and returned.  The   *)
(* keys a and r share a bucket of the 17, b has its own.                   *)
(***************************************************************************)
LruKeys == {<<97>>, <<114>>, <<98>>}

LruValues == {<<120>>, <<120, 121>>}

NoCall == [op |-> "none", key |-> <<>>, rc |-> 0, value |-> <<>>, tail |-> 0]

LruInit ==
    /\ lru = [part |-> lru_cache_create_p(UnitCapacity), call |-> NoCall]
    /\ cache = Unused /\ fs = Unused /\ last = Unused /\ lastSet = Unused
    /\ conn = Unused /\ thr = Unused /\ prs = Unused /\ used = Unused

LruPut(key, value) ==
    /\ \E r \in {lru_cache_put_p(lru.part, key, value, Len(value))} :
          lru' = [part |-> r.cache,
                  call |-> [op |-> "put", key |-> key, rc |-> r.rc,
                            value |-> value, tail |-> 0]]
    /\ UNCHANGED <<cache, fs, last, lastSet, conn, thr, prs, used>>

LruGet(key) ==
    /\ \E r \in {lru_cache_get_p(lru.part, key)} :
          lru' = [part |-> r.cache,
                  call |-> [op |-> "get", key |-> key, rc |-> r.rc,
                            value |-> r.value, tail |-> 0]]
    /\ UNCHANGED <<cache, fs, last, lastSet, conn, thr, prs, used>>

LruEvict(key) ==
    /\ \E r \in {lru_cache_evict_p(lru.part, key)} :
          lru' = [part |-> r.cache,
                  call |-> [op |-> "evict", key |-> key, rc |-> r.rc,
                            value |-> <<>>, tail |-> 0]]
    /\ UNCHANGED <<cache, fs, last, lastSet, conn, thr, prs, used>>

LruPeekTail ==
    /\ lru' = [part |-> lru.part,
               call |-> [op |-> "peek_tail", key |-> <<>>, rc |-> 0,
                         value |-> <<>>,
                         tail |-> lru_cache_get_tail_node_p(lru.part)]]
    /\ UNCHANGED <<cache, fs, last, lastSet, conn, thr, prs, used>>

LruPopTail ==
    /\ \E r \in {lru_cache_remove_tail_p(lru.part)} :
          lru' = [part |-> r.cache,
                  call |-> [op |-> "pop_tail", key |-> <<>>, rc |-> r.rc,
                            value |-> <<>>, tail |-> 0]]
    /\ UNCHANGED <<cache, fs, last, lastSet, conn, thr, prs, used>>

LruNext ==
    \/ \E key \in LruKeys, value \in LruValues : LruPut(key, value)
    \/ \E key \in LruKeys : LruGet(key)
    \/ \E key \in LruKeys : LruEvict(key)
    \/ LruPeekTail
    \/ LruPopTail

LruSpec == LruInit /\ [][LruNext]_vars

\* the nodes met from an address along next (forward) or prev, at most fuel of them
RECURSIVE Walk(_, _, _, _)
Walk(part, from, forward, fuel) ==
    IF from = 0 \/ fuel = 0 \/ from \notin DOMAIN part.nodes THEN <<>>
    ELSE <<from>> \o Walk(part,
                          IF forward THEN part.nodes[from].next
                                     ELSE part.nodes[from].prev,
                          forward, fuel - 1)

\* the recency list from the head, one more step than there are nodes
ListOf(part) == Walk(part, part.head, TRUE, Cardinality(DOMAIN part.nodes) + 1)

\* the recency list from the tail backwards
ListBack(part) == Walk(part, part.tail, FALSE, Cardinality(DOMAIN part.nodes) + 1)

\* the keys of the recency list, head first
KeyOrder(part) == [i \in 1..Len(ListOf(part)) |-> part.nodes[ListOf(part)[i]].key]

\* the hash nodes of the key map
HashNodes(part) ==
    UNION {{<<b, i>> : i \in 1..Len(part.buckets[b])} : b \in DOMAIN part.buckets}

\* a sequence without the elements equal to x
Without(seq, x) == SelectSeq(seq, LAMBDA y : y # x)

\* a sequence back to front
Reverse(seq) == [i \in 1..Len(seq) |-> seq[Len(seq) + 1 - i]]

RECURSIVE SumSizes(_, _)
SumSizes(part, hs) ==
    IF hs = {} THEN 0
    ELSE LET h == CHOOSE x \in hs : TRUE
         IN  part.nodes[part.buckets[h[1]][h[2]].node].size
                + SumSizes(part, hs \ {h})

(***************************************************************************)
(* The CAS store driven through its interface: fs is the file system,      *)
(* cache holds only the registry, last is the call made last and what it    *)
(* returned.  cas_add_to_registry is the call the coordinator makes with    *)
(* the path of a successful cas_put.                                        *)
(***************************************************************************)
CasInit ==
    /\ fs = [base |-> FALSE, ent |-> [k \in Keys |-> NoEntry]]
    /\ cache = [cas_registry |-> cas_create_registry]
    /\ last = NoCall
    /\ lastSet = Unused /\ conn = Unused /\ lru = Unused /\ thr = Unused
    /\ prs = Unused /\ used = Unused

CasPut(key, value) ==
    /\ \E r \in {cas_put(fs, key, value, Len(value))} :
          /\ fs' = r.fs
          /\ last' = [op |-> "cas_put", key |-> key, rc |-> r.rc, value |-> value,
                      tail |-> 0]
    /\ UNCHANGED <<cache, lastSet, conn, lru, thr, prs, used>>

CasAddToRegistry(path) ==
    /\ Len(cache.cas_registry.entries) < MaxRegistry
    /\ DirExists(fs, path, 4)
    /\ cache' = [cas_registry |-> cas_add_to_registry(cache.cas_registry, path)]
    /\ last' = [op |-> "cas_add_to_registry", key |-> path, rc |-> 0, value |-> <<>>,
                tail |-> 0]
    /\ UNCHANGED <<fs, lastSet, conn, lru, thr, prs, used>>

CasEvict(key) ==
    /\ \E r \in {cas_evict(fs, cache.cas_registry, key)} :
          /\ fs' = r.fs
          /\ cache' = [cas_registry |-> r.registry]
          /\ last' = [op |-> "cas_evict", key |-> key, rc |-> r.rc, value |-> <<>>,
                      tail |-> 0]
    /\ UNCHANGED <<lastSet, conn, lru, thr, prs, used>>

CasNext ==
    \/ \E key \in Keys, value \in SetValues : CasPut(key, value)
    \/ \E path \in Keys : CasAddToRegistry(path)
    \/ \E key \in Keys : CasEvict(key)

CasSpec == CasInit /\ [][CasNext]_vars

(***************************************************************************)
(* resp_parse on its own: prs holds the elements of a valid frame, the     *)
(* first len bytes of the frame as the buffer, and, once resp_parse has    *)
(* been called on them, what it returned.                                  *)
(***************************************************************************)
\* bulk strings: empty, "A", CR LF, NUL "A", "$1", "*"
ParseElements ==
    {<<>>, <<65>>, <<13, 10>>, <<0, 65>>, <<36, 49>>, <<42>>}

\* the valid frames: 1..MaxElems bulk strings, and MAX_ARGS of them
ParseFrames ==
    UNION {[1..n -> ParseElements] : n \in 1..MaxElems}
       \cup {[i \in 1..MAX_ARGS |-> <<65>>]}

\* the lengths of the buffer: every prefix of a short frame, the longest
\* prefixes of a long one
ParseLens(frame) ==
    IF Len(frame) <= MaxPrefixed THEN 0..Len(frame)
    ELSE (Len(frame) - 2)..Len(frame)

ParseInit ==
    /\ \E elems \in ParseFrames :
          \E len \in ParseLens(Frame(elems)) :
             prs = [elems |-> elems, data |-> SubSeq(Frame(elems), 1, len),
                    len |-> len, called |-> FALSE,
                    rc |-> 0, out |-> NoCmd]
    /\ cache = Unused /\ fs = Unused /\ last = Unused /\ lastSet = Unused
    /\ conn = Unused /\ lru = Unused /\ thr = Unused /\ used = Unused

Parse ==
    /\ ~prs.called
    /\ \E r \in {resp_parse(prs.data, prs.len)} :
          prs' = [prs EXCEPT !.called = TRUE, !.rc = r.rc, !.out = r.out]
    /\ UNCHANGED <<cache, fs, last, lastSet, conn, lru, thr, used>>

ParseNext == Parse

ParseSpec == ParseInit /\ [][ParseNext]_vars

(***************************************************************************)
(* Two client threads, each handling one command on the same key.  A       *)
(* thread goes through the calls its handler makes into the partition and  *)
(* the CAS, one call per step.  thr is                                     *)
(*   w0     the cache and file system before the two commands              *)
(*   mutex  the thread holding the partition's mutex, 0 when it is free    *)
(*   t      per thread: cmd; pc, the call it is at; in, whether it is      *)
(*          inside that call; rc, value, tail, the locals of its           *)
(*          coordinator function; reply                                    *)
(* Only lru_cache_put locks the mutex (lru_cache.c:183); lru_cache_get,    *)
(* lru_cache_evict, lru_cache_get_tail_node and lru_cache_remove_tail run  *)
(* without it, and so do cas_get, cas_put, cas_add_to_registry and         *)
(* cas_evict.  Calls that overlap take effect one after the other, in      *)
(* either order: the order in which they end.  What else a data race on    *)
(* the list can produce (a walk over a node another thread has freed) is   *)
(* not among the behaviours here.                                          *)
(***************************************************************************)
ConcKey == <<97>>

ConcValue == <<121, 121>>

\* the calls that take the partition's mutex: lru_cache_put, from pod_cache_put
\* (first try and retry) and from pod_cache_get (promotion)
Locked(pc) == pc \in {"lru_cache_put", "retry", "promote"}

\* the partition call of thread record th made on partition part of index
\* partition_index: the thread after the call and the partition after it
PartitionCall(th, part, partition_index) ==
    CASE th.pc = "lru_cache_get" ->
            Bind(lru_cache_get(part, ConcKey), LAMBDA o_res :
               [th |-> IF o_res.rc # -100
                       THEN [th EXCEPT !.rc = partition_index, !.value = o_res.value,
                                       !.pc = IF th.cmd = "INCR" THEN "strtol"
                                              ELSE "reply"]
                       ELSE [th EXCEPT !.pc = "cas_get"],
                part |-> o_res.cache])
      [] th.pc = "promote" ->
            [th |-> [th EXCEPT !.pc = "cas_evict"],
             part |-> lru_cache_put(part, ConcKey, th.value, Len(th.value)).cache]
      [] th.pc = "lru_cache_put" ->
            Bind(lru_cache_put(part, ConcKey,
                               IF th.cmd = "INCR" THEN th.value ELSE ConcValue \o <<0>>,
                               IF th.cmd = "INCR" THEN strlen(th.value)
                               ELSE Len(ConcValue)),
                 LAMBDA put_response :
               [th |-> IF put_response.rc # -900
                       THEN [th EXCEPT !.rc = partition_index, !.pc = "reply"]
                       ELSE [th EXCEPT !.pc = "lru_cache_get_tail_node"],
                part |-> put_response.cache])
      [] th.pc = "lru_cache_get_tail_node" ->
            Bind(lru_cache_get_tail_node(part), LAMBDA tail :
               [th |-> IF tail = <<>>
                       THEN [th EXCEPT !.rc = -1, !.pc = "reply"]
                       ELSE [th EXCEPT !.tail = tail, !.pc = "cas_put"],
                part |-> part])
      [] th.pc = "lru_cache_remove_tail" ->
            [th |-> [th EXCEPT !.pc = "retry"],
             part |-> lru_cache_remove_tail(part).cache]
      [] th.pc = "retry" ->
            Bind(lru_cache_put(part, ConcKey,
                               IF th.cmd = "INCR" THEN th.value ELSE ConcValue \o <<0>>,
                               IF th.cmd = "INCR" THEN strlen(th.value)
                               ELSE Len(ConcValue)),
                 LAMBDA put_response :
               [th |-> [th EXCEPT !.rc = IF put_response.rc < 0 THEN -1
                                         ELSE partition_index,
                                  !.pc = "reply"],
                part |-> put_response.cache])
      [] th.pc = "lru_cache_evict" ->
            Bind(lru_cache_evict(part, ConcKey), LAMBDA memory_evict_result :
               [th |-> IF memory_evict_result.rc = -100
                       THEN [th EXCEPT !.pc = "cas_evict"]
                       ELSE [th EXCEPT !.rc = 1, !.pc = "reply"],
                part |-> memory_evict_result.cache])

\* the CAS call of thread record th in world w: the thread and the world after
CasCall(th, w) ==
    CASE th.pc = "cas_get" ->
            Bind(cas_get(w.fs, ConcKey), LAMBDA disk :
               [th |-> IF disk.rc # 0
                       THEN [th EXCEPT !.rc = -1,
                                       !.pc = IF th.cmd = "INCR" THEN "strtol"
                                              ELSE "reply"]
                       ELSE [th EXCEPT !.value = disk.value, !.pc = "promote"],
                w |-> w])
      [] th.pc = "cas_evict" ->
            Bind(cas_evict(w.fs, w.cache.cas_registry, ConcKey), LAMBDA ev :
               [th |-> [th EXCEPT !.rc = IF th.cmd \in {"GET", "INCR"} THEN 0
                                         ELSE IF ev.rc = 0 THEN 1 ELSE 0,
                                  !.pc = IF th.cmd = "INCR" THEN "strtol"
                                         ELSE "reply"],
                w |-> [cache |-> [w.cache EXCEPT !.cas_registry = ev.registry],
                       fs |-> ev.fs]])
      [] th.pc = "cas_put" ->
            Bind(cas_put(w.fs, th.tail[1].key, th.tail[1].value, th.tail[1].size),
                 LAMBDA cas_result :
               IF cas_result.rc # 0
               THEN [th |-> [th EXCEPT !.rc = -1, !.pc = "reply"],
                     w |-> [w EXCEPT !.fs = cas_result.fs]]
               ELSE [th |-> [th EXCEPT !.pc = "lru_cache_remove_tail"],
                     w |-> [cache |-> [w.cache EXCEPT !.cas_registry =
                                          cas_add_to_registry(@, cas_result.output_path)],
                            fs |-> cas_result.fs]])

\* the reply of the handler from the result of its coordinator call
ReplyOf(th, heap_tail) ==
    CASE th.cmd = "GET" ->
            IF th.rc # 0 THEN send_null_response
            ELSE send_bulk_string_response(ReadPastBuffer(th.value, heap_tail))
      [] th.cmd = "SET" ->
            IF th.rc < 0 THEN send_error_response("failed to store value")
            ELSE send_ok_response("OK")
      [] th.cmd = "DEL" ->
            IF th.rc # -1 THEN send_integer_response(th.rc)
            ELSE send_error_response("error")
      [] th.cmd = "INCR" -> th.reply

ConcInit ==
    /\ \E n \in 1..MaxPartitions, sets \in PriorSets :
          \E w \in {AfterSets([cache |-> pod_cache_create(UnitCapacity * n, n),
                              fs |-> [base |-> FALSE, ent |-> [k \in Keys |-> NoEntry]]],
                             sets)} :
             /\ cache = w.cache /\ fs = w.fs
             /\ \E c \in [1..2 -> {"GET", "SET", "DEL", "INCR"}] :
                   thr = [w0 |-> w, mutex |-> 0,
                          t |-> [i \in 1..2 |->
                                   [cmd |-> c[i],
                                    pc |-> CASE c[i] \in {"GET", "INCR"} -> "lru_cache_get"
                                             [] c[i] = "SET" -> "lru_cache_put"
                                             [] c[i] = "DEL" -> "lru_cache_evict",
                                    in |-> FALSE, rc |-> 0,
                                    value |-> <<>>, tail |-> <<>>, reply |-> NoReply]]]
    /\ last = Unused /\ lastSet = Unused /\ conn = Unused /\ lru = Unused
    /\ prs = Unused /\ used = Unused

\* thread i enters its next call: lru_cache_put after locking the mutex of the
\* partition, every other partition call and every CAS call at once
Begin(i) ==
    /\ thr.t[i].pc \notin {"strtol", "reply", "done"}
    /\ ~thr.t[i].in
    /\ Locked(thr.t[i].pc) => thr.mutex = 0
    /\ thr' = [thr EXCEPT !.mutex = IF Locked(thr.t[i].pc) THEN i ELSE @,
                          !.t[i].in = TRUE]
    /\ UNCHANGED <<cache, fs, last, lastSet, conn, lru, prs, used>>

\* thread i leaves its partition call, lru_cache_put unlocking the mutex
End(i) ==
    /\ thr.t[i].in
    /\ thr.t[i].pc \notin {"cas_get", "cas_put", "cas_evict"}
    /\ \E r \in {PartitionCall(thr.t[i],
                               cache.partitions[
                                  get_partition(ConcKey, cache.partition_count)],
                               get_partition(ConcKey, cache.partition_count))} :
          /\ cache' = [cache EXCEPT
                !.partitions[get_partition(ConcKey, cache.partition_count)] = r.part]
          /\ thr' = [thr EXCEPT
                !.mutex = IF Locked(thr.t[i].pc) THEN 0 ELSE @,
                !.t[i] = [r.th EXCEPT !.in = FALSE]]
    /\ UNCHANGED <<fs, last, lastSet, conn, lru, prs, used>>

\* thread i leaves its CAS call
Cas(i) ==
    /\ thr.t[i].in
    /\ thr.t[i].pc \in {"cas_get", "cas_put", "cas_evict"}
    /\ \E r \in {CasCall(thr.t[i], World)} :
          /\ cache' = r.w.cache
          /\ fs' = r.w.fs
          /\ thr' = [thr EXCEPT !.t[i] = [r.th EXCEPT !.in = FALSE]]
    /\ UNCHANGED <<last, lastSet, conn, lru, prs, used>>

\* handle_incr of thread i between its pod_cache_get and its pod_cache_put:
\* the text to store and the reply to send after the put; nothing shared is
\* touched
Increment(i, heap_tail) ==
    /\ thr.t[i].pc = "strtol"
    /\ \E th \in {thr.t[i]} :
       \E str \in {CStr(ReadPastBuffer(th.value, heap_tail))} :
       \E parsed \in {strtol(str)} :
          thr' = [thr EXCEPT !.t[i] =
                    IF th.rc # 0
                    THEN [th EXCEPT !.value = <<49, 0>>, !.pc = "lru_cache_put",
                                    !.reply = send_integer_response(1)]
                    ELSE IF parsed.end # Len(str) + 1
                    THEN [th EXCEPT !.pc = "reply", !.reply = send_error_response(
                                       "value is not an integer or out of range")]
                    ELSE [th EXCEPT !.value = FmtLd(parsed.val + 1) \o <<0>>,
                                    !.pc = "lru_cache_put",
                                    !.reply = send_integer_response(parsed.val + 1)]]
    /\ UNCHANGED <<cache, fs, last, lastSet, conn, lru, prs, used>>

\* the handler of thread i writes its reply
Reply(i, heap_tail) ==
    /\ thr.t[i].pc = "reply"
    /\ thr' = [thr EXCEPT !.t[i].reply = ReplyOf(thr.t[i], heap_tail),
                          !.t[i].pc = "done"]
    /\ UNCHANGED <<cache, fs, last, lastSet, conn, lru, prs, used>>

ConcNext ==
    \/ \E i \in 1..2 : Begin(i)
    \/ \E i \in 1..2 : End(i)
    \/ \E i \in 1..2 : Cas(i)
    \/ \E i \in 1..2, heap_tail \in HeapTails : Increment(i, heap_tail)
    \/ \E i \in 1..2, heap_tail \in HeapTails : Reply(i, heap_tail)

ConcSpec == ConcInit /\ [][ConcNext]_vars

\* the value world w holds for the key, in memory or else on disk
ContentsOf(w, key) ==
    Bind(w.cache.partitions[get_partition(key, w.cache.partition_count)], LAMBDA part :
        IF NodeIndex(part, key) # 0 THEN <<part.list[NodeIndex(part, key)].value>>
        ELSE w.fs.ent[key].value_dat)

\* the two replies and the world of the two serial orders of the commands of
\* the two threads, run from w0 by their handlers
SerialOutcomes ==
    LET Handle(w, cmd, heap_tail) ==
           CASE cmd = "GET" -> handle_get(w, ConcKey, heap_tail)
             [] cmd = "SET" -> handle_set(w, ConcKey, ConcValue)
             [] cmd = "DEL" -> handle_del(w, ConcKey)
             [] cmd = "INCR" -> handle_incr(w, ConcKey, heap_tail)
    IN  UNION {
           {Bind(Handle(thr.w0, thr.t[1].cmd, h[1]), LAMBDA first :
            Bind(Handle(first.w, thr.t[2].cmd, h[2]), LAMBDA second :
               [r1 |-> first.reply, r2 |-> second.reply, w |-> second.w])),
            Bind(Handle(thr.w0, thr.t[2].cmd, h[2]), LAMBDA first :
            Bind(Handle(first.w, thr.t[1].cmd, h[1]), LAMBDA second :
               [r1 |-> second.reply, r2 |-> first.reply, w |-> second.w]))}
           : h \in [1..2 -> HeapTails]}

(***************************************************************************)
(* What a state holds for a key.                                           *)
(***************************************************************************)
PartitionOf(key) == cache.partitions[get_partition(key, cache.partition_count)]

\* the key has an entry in its memory partition
InMemory(key) == \E i \in 1..Len(PartitionOf(key).list) : PartitionOf(key).list[i].key = key

MemValue(key) == PartitionOf(key).list[NodeIndex(PartitionOf(key), key)].value

\* the key has a value.dat on disk
OnDisk(key) == fs.ent[key].value_dat # <<>>

DiskValue(key) == fs.ent[key].value_dat[1]

\* the value the cache holds for the key, in memory or else on disk: <<>> when
\* it holds none, else <<value>>
Contents(key) ==
    IF InMemory(key) THEN <<MemValue(key)>>
    ELSE IF OnDisk(key) THEN <<DiskValue(key)>>
    ELSE <<>>

\* the -ERR replies to an unknown command, a wrong argument count and an INCR
\* of a value that is not an integer
ClientErrors ==
    {send_error_response("unknown command"),
     send_error_response("wrong number of arguments for 'SET' command"),
     send_error_response("wrong number of arguments for 'GET' command"),
     send_error_response("wrong number of arguments for 'DEL' or 'UNLINK' command"),
     send_error_response("wrong number of arguments for 'INCR' command"),
     send_error_response("value is not an integer or out of range")}

Bulk(bytes) == [t |-> "bulk", s |-> "", b |-> bytes]

Integer(n) == send_integer_response(n)

TypeOK ==
    /\ cache.partition_count \in 1..MaxPartitions
    /\ \A k \in Keys : fs.ent[k].dirs \in 0..4
    /\ last.op \in {"none", "SET", "GET", "DEL", "INCR"}

(***************************************************************************)
(* Claims.                                                                 *)
(***************************************************************************)

\* C1: a SET k v that replies +OK, immediately followed by GET k, is answered
\* with a bulk string equal to v, for every partition count, key and value.
C1_SetThenGet ==
    [][(last.op = "SET" /\ last.reply = OK /\ last'.op = "GET" /\ last'.key = last.key)
          => last'.reply = Bulk(last.val)]_vars

\* C2: cold data survives memory pressure: after any sequence of commands a key
\* whose last successful SET was not followed by a DEL of it is still
\* retrievable with the value of that SET, and an entry pushed out of memory
\* stays on disk until it is back in memory.
C2_ColdDataSurvives ==
    [][\A k \in Keys :
          /\ lastSet'[k] # <<>> =>
                /\ pod_cache_get(World', k).rc >= 0
                /\ pod_cache_get(World', k).value = lastSet'[k][1]
          /\ (OnDisk(k) /\ ~InMemory(k) /\ ~(last'.op = "DEL" /\ last'.key = k))
                => (OnDisk(k)' \/ InMemory(k)')]_vars

\* C3: after SET k v replies +OK and DEL k is then executed, the next GET k
\* replies $-1, whatever preceded the SET.
C3_SetDelGet ==
    [][(last.op = "SET" /\ last.reply = OK /\ last'.op = "DEL" /\ last'.key = last.key)
          => \A t \in HeapTails :
                handle_get(World', last.key, t).reply = send_null_response]_vars

\* C4: when SET k v1 and then SET k v2 both reply +OK, the next GET k replies
\* v2 and never v1.
C4_SetSetGet ==
    [][(last.op = "SET" /\ last.reply = OK /\ last'.op = "SET" /\ last'.reply = OK
          /\ last'.key = last.key)
          => \A t \in HeapTails :
                handle_get(World', last.key, t).reply = Bulk(last'.val)]_vars

\* C5: after every completed coordinator operation every key has a value in at
\* most one tier: never both an entry in its memory partition and a value.dat.
C5_AtMostOneTier == \A k \in Keys : ~(InMemory(k) /\ OnDisk(k))

\* C6: GET of a key that resides only on disk returns exactly the spilled
\* bytes, and when the GET completes the key is in its memory partition (also
\* when the partition was full) and no longer on disk.
C6_PromoteOnGet ==
    [][\A k \in Keys :
          (OnDisk(k) /\ ~InMemory(k) /\ last'.op = "GET" /\ last'.key = k)
          => /\ pod_cache_get(World, k).value = DiskValue(k)
             /\ InMemory(k)'
             /\ MemValue(k)' = DiskValue(k)
             /\ ~OnDisk(k)']_vars

\* C7: a SET whose value is smaller than the partition capacity succeeds, the
\* coordinator spilling as many least-recently-used entries as needed; it
\* fails only when the partition is empty and the value still does not fit.
C7_SpillUntilFits ==
    [][(last'.op = "SET" /\ Len(last'.val) < cache.partition_capacity)
          => last'.reply = OK]_vars

\* C8: a SET whose value size exceeds the capacity of a partition fails with a
\* storage error and leaves the byte count of that partition as it was,
\* whether the partition was empty or held entries.
C8_TooLargeLeavesBytes ==
    [][\A k \in Keys :
          (last'.op = "SET" /\ last'.key = k /\ Len(last'.val) > cache.partition_capacity)
          => /\ last'.reply = send_error_response("failed to store value")
             /\ PartitionOf(k)'.current_bytes_size = PartitionOf(k).current_bytes_size]_vars

\* C9: DEL k replies 1 exactly when a copy of k existed in memory or on disk
\* and was removed, 0 exactly when k was absent from both tiers; an
\* immediately repeated DEL k replies 0.
C9_DelReply ==
    [][/\ \A k \in Keys :
             (last'.op = "DEL" /\ last'.key = k)
             => last'.reply = Integer(IF InMemory(k) \/ OnDisk(k) THEN 1 ELSE 0)
       /\ (last.op = "DEL" /\ last'.op = "DEL" /\ last'.key = last.key)
             => last'.reply = Integer(0)]_vars

\* C10: INCR on a key absent from both tiers replies 1 and stores the text
\* "1"; successive INCRs on the key reply 1, 2, ..., n in that order.
C10_IncrSequence ==
    [][/\ \A k \in Keys :
             (~InMemory(k) /\ ~OnDisk(k) /\ last'.op = "INCR" /\ last'.key = k)
             => /\ last'.reply = Integer(1)
                /\ InMemory(k)' /\ MemValue(k)' = <<49>>
       /\ \A n \in 1..MaxCounter :
             (last.op = "INCR" /\ last.reply = Integer(n)
                /\ last'.op = "INCR" /\ last'.key = last.key)
             => last'.reply = Integer(n + 1)]_vars

\* C11: UNLINK is a recognized command name and UNLINK k has the reply and the
\* effect on the cache of DEL k in every state; command names are matched
\* without regard to case (del k is DEL k).
C11_UnlinkIsDel ==
    [][\A k \in Keys :
          (/\ Len(conn'.sent) = Len(conn.sent) + 1
           /\ str_toupper(CStr(conn'.sent[Len(conn'.sent)].cmd.command))
                 \in {<<68, 69, 76>>, <<85, 78, 76, 73, 78, 75>>}
           /\ conn'.sent[Len(conn'.sent)].cmd.args = <<k \o <<0>> >>)
          => /\ conn'.sent[Len(conn'.sent)].reply = handle_del(World, k).reply
             /\ World' = handle_del(World, k).w]_vars

\* C12: after any sequence of put, get, evict and pop_tail on a partition its
\* current_bytes_size is the sum of the sizes of the entries it holds, and is
\* at most max_bytes_capacity.
C12_BytesAreSumOfSizes ==
    /\ lru.part.current_bytes_size = SumSizes(lru.part, HashNodes(lru.part))
    /\ lru.part.current_bytes_size <= lru.part.max_bytes_capacity

\* C12 witness: pop_tail has removed an entry of a partition that still holds
\* two entries, two bytes in all.
C12_Witness ==
    /\ lru.call.op = "pop_tail" /\ lru.call.rc = 0
    /\ Cardinality(HashNodes(lru.part)) = 2
    /\ lru.part.current_bytes_size = 2

\* C13: after any sequence of completed partition operations the recency list
\* holds exactly the entries of the key map, each once: every hash node points
\* at a node of the list with its key, in the bucket of that key; every node of
\* the list has exactly one hash node; the list read backwards from the tail is
\* the list read from the head; head and tail are null exactly when the
\* partition holds nothing.
C13_ListIsMap ==
    LET part == lru.part
        list == ListOf(part)
    IN  /\ \A i, j \in 1..Len(list) : list[i] = list[j] => i = j
        /\ \A h \in HashNodes(part) :
              LET hn == part.buckets[h[1]][h[2]]
              IN  /\ \E i \in 1..Len(list) : list[i] = hn.node
                  /\ part.nodes[hn.node].key = hn.key
                  /\ hash_key(hn.key, part.hash_table_size) = h[1]
        /\ \A i \in 1..Len(list) :
              Cardinality({h \in HashNodes(part) :
                              part.buckets[h[1]][h[2]].node = list[i]}) = 1
        /\ DOMAIN part.nodes = {list[i] : i \in 1..Len(list)}
        /\ ListBack(part) = Reverse(list)
        /\ (part.head = 0) <=> (HashNodes(part) = {})
        /\ (part.tail = 0) <=> (HashNodes(part) = {})

\* C13 witness: evict has removed the entry between two entries whose keys
\* share a bucket.
C13_Witness ==
    /\ lru.call.op = "evict" /\ lru.call.rc = 0 /\ lru.call.key = <<98>>
    /\ KeyOrder(lru.part) = << <<114>>, <<97>> >>
    /\ \E b \in DOMAIN lru.part.buckets : Len(lru.part.buckets[b]) = 2

\* C14: a get that hits or a put that inserts or replaces leaves its key at the
\* head of the recency order and the other entries in their order; peek_tail
\* changes nothing of the partition; a get of a key other than the tail's leaves
\* the same node at the tail.
C14_RecencyOrder ==
    [][/\ (lru'.call.op \in {"get", "put"} /\ lru'.call.rc = 0)
          => /\ KeyOrder(lru'.part) # <<>>
             /\ KeyOrder(lru'.part)[1] = lru'.call.key
             /\ Without(KeyOrder(lru'.part), lru'.call.key)
                   = Without(KeyOrder(lru.part), lru'.call.key)
       /\ lru'.call.op = "peek_tail"
          => /\ lru'.part = lru.part
             /\ lru'.call.tail = lru.part.tail
       /\ (/\ lru'.call.op = "get"
           /\ lru.part.tail # 0
           /\ lru'.call.key # lru.part.nodes[lru.part.tail].key)
          => lru'.part.tail = lru.part.tail]_vars

\* C14 witness: a get has hit in a partition of three entries and its key is
\* at the head.
C14_Witness ==
    /\ lru.call.op = "get" /\ lru.call.rc = 0
    /\ Len(KeyOrder(lru.part)) = 3
    /\ KeyOrder(lru.part)[1] = lru.call.key

\* C15: for every valid command frame f (an array of 1..100 bulk strings)
\* resp_parse(f) returns len(f) and yields the command name and the arguments
\* of f, in order and with the same bytes (each followed by its terminating
\* NUL).
C15_ParseRoundTrip ==
    (prs.called /\ prs.len = Len(Frame(prs.elems)))
    => /\ prs.rc = Len(Frame(prs.elems))
       /\ prs.out.command = prs.elems[1] \o <<0>>
       /\ prs.out.arg_count = Len(prs.elems) - 1
       /\ prs.out.args = [i \in 1..(Len(prs.elems) - 1) |-> prs.elems[i + 1] \o <<0>>]

\* C15 witness: resp_parse has consumed a whole frame of MAX_ARGS elements.
C15_Witness ==
    /\ prs.called /\ Len(prs.elems) = MAX_ARGS
    /\ prs.len = Len(Frame(prs.elems)) /\ prs.rc = prs.len

\* C16: for every valid command frame f and every strict prefix p of f,
\* resp_parse(p) returns 0 (incomplete), never -1, also when p ends exactly
\* after the array header or after a complete element.
C16_PrefixIsIncomplete ==
    (prs.called /\ prs.len < Len(Frame(prs.elems))) => prs.rc = PARSE_INCOMPLETE

\* C17: within one connection the i-th reply written to the socket answers
\* the i-th command framed from the byte stream, however the bytes are cut
\* into reads.
C17_RepliesInOrder ==
    \A i \in 1..Len(conn.sent) :
       /\ i <= Len(conn.frames)
       /\ conn.sent[i].cmd = CommandOf(conn.frames[i])

\* C18: when one whole command is read and is rejected with a client-protocol
\* error (unknown command, wrong argument count, INCR of a value that is not an
\* integer), it gets exactly one reply, the -ERR; every key has the value it
\* had before; the connection stays open with an empty command buffer.
C18_ErrorLeavesContents ==
    [][\A k \in Keys :
          (/\ conn.cmd_buf = <<>>
           /\ conn.frames # <<>>
           /\ conn.stream = Frame(conn.frames[Len(conn.frames)])
           /\ conn'.stream = <<>>
           /\ conn'.sent # <<>>
           /\ conn'.sent # conn.sent
           /\ conn'.sent[Len(conn'.sent)].reply \in ClientErrors)
          => /\ Len(conn'.sent) = Len(conn.sent) + 1
             /\ conn'.open
             /\ conn'.cmd_buf = <<>>
             /\ Contents(k)' = Contents(k)]_vars

\* C19: every partition operation holds the partition's mutex for its full
\* duration: two threads are never at the same time inside operations on the
\* same partition.
C19_MutualExclusion ==
    /\ ~(\A i \in 1..2 :
            thr.t[i].in /\ thr.t[i].pc \notin {"cas_get", "cas_put", "cas_evict"})
    /\ \A i \in 1..2 :
          (thr.t[i].in /\ thr.t[i].pc \notin {"cas_get", "cas_put", "cas_evict"})
          => thr.mutex = i

\* C20: when two connections have each issued one command on the same key
\* (GET, SET or DEL) and both are answered, the two replies and the value the
\* cache holds for every key are those of one of the two serial orders of the
\* two commands.
C20_Serializable ==
    (thr.t[1].pc = "done" /\ thr.t[2].pc = "done")
    => \E o \in SerialOutcomes :
          /\ o.r1 = thr.t[1].reply
          /\ o.r2 = thr.t[2].reply
          /\ \A k \in Keys : ContentsOf(o.w, k) = ContentsOf(World, k)

\* C21: during a put that overflows, peek_tail, the cas_put of the tail, the
\* registry add, pop_tail and the retried insert are not interleaved with an
\* operation of another thread on the partition: the entry pop_tail removes is
\* the entry that was peeked and written to disk.
C21_PopsWhatItSpilled ==
    [][\A i \in 1..2 :
          (/\ thr.t[i].pc = "lru_cache_remove_tail"
           /\ thr.t[i].in
           /\ ~thr'.t[i].in)
          => lru_cache_get_tail_node(
                cache.partitions[get_partition(ConcKey, cache.partition_count)])
                = thr.t[i].tail]_vars

\* C22: after the teardown of the cache the CAS base directory and everything
\* under it (every value.dat, every time.dat, every fan-out directory) no
\* longer exist.
C22_TeardownWipesDisk ==
    last.op = "destroy"
    => /\ ~fs.base
       /\ \A k \in Keys : fs.ent[k] = NoEntry

\* C22 witness: the teardown ran on a cache that had spilled one of two
\* three-byte values of a single partition to disk
C22_Witness ==
    /\ last.op = "destroy"
    /\ cache.partition_count = 1
    /\ \A k \in Keys : lastSet[k] = <<<<120, 120, 120>>>>

\* C23: QUIT is answered with +BYE and the connection is then torn down:
\* the reply to QUIT is the last one written, and once it is written no command
\* that follows QUIT in the same buffer or arrives later is dispatched, none
\* gets a reply and none changes the cache or the disk.
C23_QuitEndsConnection ==
    /\ [](\A i \in 1..Len(conn.sent) :
             CStr(conn.sent[i].cmd.command) = <<81, 85, 73, 84>>
             => /\ conn.sent[i].reply = send_ok_response("BYE")
                /\ i = Len(conn.sent)
                /\ ~conn.open)
    /\ [][(\E i \in 1..Len(conn.sent) :
             CStr(conn.sent[i].cmd.command) = <<81, 85, 73, 84>>)
          => /\ UNCHANGED <<cache, fs, used>>
             /\ conn'.sent = conn.sent
             /\ conn'.cmd_buf = conn.cmd_buf]_vars

\* C23 witness: QUIT was answered with the first bytes of the next command
\* behind it in the same buffer and the rest of that command still in flight
C23_Witness ==
    /\ ~conn.open
    /\ Len(conn.sent) = 1
    /\ conn.sent[1].reply = send_ok_response("BYE")
    /\ Len(conn.cmd_buf) > Len(Frame(<< <<81, 85, 73, 84>> >>))
    /\ Len(conn.frames) = 2
    /\ conn.stream # <<>>

\* C24: a partition put on a key that is already in the partition replaces
\* the value in place, adjusts current_bytes_size by the size difference,
\* moves the node to the head and returns 0 whenever the byte total after the
\* replacement is below the capacity; -900 is returned only for keys that are
\* not in the partition.
C24_UpdateInPlace ==
    [][lru'.call.op = "put"
       => \A n \in DOMAIN lru.part.nodes :
             (/\ n \in {ListOf(lru.part)[i] : i \in 1..Len(ListOf(lru.part))}
              /\ lru.part.nodes[n].key = lru'.call.key)
             => /\ lru'.call.rc # -900
                /\ (lru.part.current_bytes_size - lru.part.nodes[n].size
                        + Len(lru'.call.value) < lru.part.max_bytes_capacity)
                   => /\ lru'.call.rc = 0
                      /\ lru'.part.current_bytes_size =
                            lru.part.current_bytes_size - lru.part.nodes[n].size
                               + Len(lru'.call.value)
                      /\ lru'.part.head = n
                      /\ lru'.part.nodes[n].value = lru'.call.value]_vars

\* C25: the entry the coordinator spills when the put of a SET or of an INCR
\* overflows (the one that leaves the memory partition, the one whose
\* value.dat is written) is the
\* least recently used entry of the partition: every other entry the partition
\* held was used (found by a GET or INCR, or stored by a SET) after it.
C25_SpillsLeastRecentlyUsed ==
    [][/\ last'.op = "SET"
          => \A s \in Keys :
                (/\ InMemory(s)
                 /\ ~InMemory(s)' \/ fs'.ent[s].value_dat # fs.ent[s].value_dat)
                => \A j \in Keys :
                      (/\ j # s
                       /\ InMemory(j)
                       /\ get_partition(j, cache.partition_count)
                             = get_partition(s, cache.partition_count))
                      => \E m, n \in 1..Len(used) :
                            used[m] = j /\ used[n] = s /\ m < n
       \* the put of an INCR comes after its get, which uses the key when it
       \* finds it or brings it in memory
       /\ last'.op = "INCR"
          => \E mid \in {pod_cache_get(World, last'.key).w} :
             \E held \in {{k \in Keys : NodeIndex(mid.cache.partitions[
                             get_partition(k, cache.partition_count)], k) # 0}} :
             \E g \in {SelectSeq(<<last'.key>> \o SelectSeq(used, LAMBDA k : k # last'.key),
                                 LAMBDA k : k \in held)} :
                \A s \in held :
                   (~InMemory(s)' \/ fs'.ent[s].value_dat # mid.fs.ent[s].value_dat)
                   => \A j \in held :
                         (/\ j # s
                          /\ get_partition(j, cache.partition_count)
                                = get_partition(s, cache.partition_count))
                         => \E m, n \in 1..Len(g) :
                               g[m] = j /\ g[n] = s /\ m < n]_vars

\* C25 witness: the partition held both keys with one byte each and a SET of
\* three bytes on one of them has just spilled the other, which had never been
\* on disk before
C25_Witness ==
    /\ last.op = "SET"
    /\ last.val = <<120, 120, 120>>
    /\ fs.ent[last.key].dirs = 0
    /\ InMemory(last.key)
    /\ \E s \in Keys :
          /\ s # last.key
          /\ ~InMemory(s)
          /\ OnDisk(s)
          /\ DiskValue(s) = <<49>>
          /\ lastSet[s] = <<<<49>>>>

\* C26: cas_put for a key whose leaf directory already exists (left by an
\* earlier put of the key) succeeds and leaves exactly the new bytes in
\* value.dat: the disk state is that of a single put of the last value.
C26_PutOverwrites ==
    [][\A k \in Keys :
          (last'.op = "cas_put" /\ last'.key = k /\ DirExists(fs, k, 4))
          => /\ last'.rc = 0
             /\ fs'.ent[k] = [dirs |-> 4, value_dat |-> <<last'.value>>, time_dat |-> TRUE]
             /\ \A j \in Keys \ {k} : fs'.ent[j] = fs.ent[j]]_vars

\* C27: cas_evict of a key stored by cas_put returns 0, leaves neither
\* value.dat nor any of the key's four directories, and removes exactly that
\* key's path from the registry, keeping every other entry; cas_evict of a key
\* with no value.dat returns -1 and changes nothing.
C27_EvictRemoves ==
    [][\A k \in Keys :
          (last'.op = "cas_evict" /\ last'.key = k)
          => IF fs.ent[k].value_dat # <<>>
             THEN /\ last'.rc = 0
                  /\ fs'.ent[k] = NoEntry
                  /\ \A j \in Keys \ {k} : fs'.ent[j] = fs.ent[j]
                  /\ SelectSeq(cache'.cas_registry.entries, LAMBDA e : e # k)
                        = SelectSeq(cache.cas_registry.entries, LAMBDA e : e # k)
                  /\ \A i \in 1..Len(cache'.cas_registry.entries) :
                        cache'.cas_registry.entries[i] # k
             ELSE /\ last'.rc = -1
                  /\ fs' = fs
                  /\ cache' = cache]_vars

\* C28: after any sequence of coordinator operations every path in the CAS
\* registry has its value.dat on disk and its four directories: a key whose
\* disk copy was removed by a promotion or a DEL has no registry entry left.
C28_RegistryMatchesDisk ==
    \A i \in 1..Len(cache.cas_registry.entries) :
       /\ OnDisk(cache.cas_registry.entries[i])
       /\ DirExists(fs, cache.cas_registry.entries[i], 4)

\* C29: a key that was spilled to disk and is back in memory can be spilled
\* again: when it is the tail of its partition and a SET overflows the
\* partition (and fits once the tail is out), the tail's value is written to
\* disk and the SET replies +OK.
C29_SpillAgain ==
    [][\A k \in Keys :
          (/\ last'.op = "SET"
           /\ last'.key = k
           /\ PartitionOf(k).current_bytes_size + Len(last'.val)
                 >= PartitionOf(k).max_bytes_capacity
           /\ PartitionOf(k).list # <<>>)
          => \A t \in {PartitionOf(k).list[Len(PartitionOf(k).list)]} :
                (/\ DirExists(fs, t.key, 4)
                 /\ PartitionOf(k).current_bytes_size - t.size + Len(last'.val)
                       < PartitionOf(k).max_bytes_capacity)
                => /\ fs'.ent[t.key].value_dat = <<t.value>>
                   /\ last'.reply = OK]_vars

\* C30: mutations of the CAS store and of its registry are serialized: two
\* threads are never at the same time inside a call that writes or removes
\* files or adds or removes a registry path (cas_put with the registry add
\* that follows it, cas_evict).
C30_CasSerialized ==
    ~(\A i \in 1..2 : thr.t[i].in /\ thr.t[i].pc \in {"cas_put", "cas_evict"})

\* C31: two connections each issuing one INCR on the same fresh key of an empty
\* one-partition cache, both answered with an integer: no lock is held from
\* the get of an INCR to its put, so the replies are 1 and 2 in one order or
\* the other, or both 1; the value stored at the end is the text of the larger
\* reply, and it is "1" when both replies are 1 (a lost update).
C31_IncrLosesUpdates ==
    /\ \A i \in 1..2 :
          (thr.t[i].cmd = "INCR" /\ thr.t[i].pc \in {"strtol", "lru_cache_put"}
              /\ ~thr.t[i].in)
          => thr.mutex # i
    /\ (/\ \A i \in 1..2 : thr.t[i].cmd = "INCR" /\ thr.t[i].pc = "done"
        /\ \A k \in Keys : ContentsOf(thr.w0, k) = <<>> /\ thr.w0.fs.ent[k] = NoEntry
        /\ cache.partition_count = 1
        /\ \A i \in 1..2 : thr.t[i].reply.t = "integer")
       => \E r \in {<<1, 2>>, <<2, 1>>, <<1, 1>>} :
             /\ \A i \in 1..2 : thr.t[i].reply = send_integer_response(r[i])
             /\ ContentsOf(World, ConcKey)
                   = <<FmtLd(IF r[1] > r[2] THEN r[1] ELSE r[2])>>

\* C31 witness: both INCRs of a fresh key of a one-partition cache replied 1
\* and the key holds "1"
C31_Witness ==
    /\ \A i \in 1..2 :
          /\ thr.t[i].cmd = "INCR"
          /\ thr.t[i].pc = "done"
          /\ thr.t[i].reply = send_integer_response(1)
    /\ \A k \in Keys : ContentsOf(thr.w0, k) = <<>> /\ thr.w0.fs.ent[k] = NoEntry
    /\ cache.partition_count = 1
    /\ ContentsOf(World, ConcKey) = <<<<49>>>>

\* C32: the replies and the cache do not depend on how the byte stream is split
\* into reads: receiving the bytes in flight in two reads, cut at any point,
\* leaves the same replies, the same cache and disk and the same connection
\* state as receiving them in one read.
C32_SplitIndependent ==
    conn.open =>
       \A n \in RecvSizes(conn.stream), heap_tail \in HeapTails :
          n < Len(conn.stream) =>
             \A whole \in {client_handler_thread(World, conn.cmd_buf, conn.sent,
                                                 conn.stream, heap_tail)} :
             \A first \in {client_handler_thread(World, conn.cmd_buf, conn.sent,
                                                 SubSeq(conn.stream, 1, n), heap_tail)} :
                first.open =>
                   \A second \in {client_handler_thread(
                                     first.w, first.cmd_buf, first.sent,
                                     SubSeq(conn.stream, n + 1, Len(conn.stream)),
                                     heap_tail)} :
                      /\ second.sent = whole.sent
                      /\ second.w = whole.w
                      /\ second.cmd_buf = whole.cmd_buf
                      /\ second.open = whole.open

\* the command buffer of a read that shortens the stream in flight: the
\* buffered bytes followed by the bytes received
ReadBuffer == conn.cmd_buf \o SubSeq(conn.stream, 1, Len(conn.stream) - Len(conn'.stream))

ProtocolError == [reply |-> send_error_response("protocol error"), cmd |-> NoCmd]

\* C33: a read that leaves a malformed front in the command buffer is answered
\* by one -ERR protocol error, every buffered byte is dropped (complete
\* commands behind the malformed bytes too) and the connection stays open;
\* when a complete command stands before the malformed bytes in the same read,
\* it is dispatched and keeps its reply and its effect on cache and disk.
C33_ProtocolErrorDiscards ==
    [][(conn.open /\ Len(conn'.stream) < Len(conn.stream)) =>
          \A b \in {ReadBuffer} :
          \A p \in {resp_parse(b, Len(b))} :
             /\ p.rc < 0 =>
                   /\ conn'.sent = Append(conn.sent, ProtocolError)
                   /\ conn'.cmd_buf = <<>>
                   /\ conn'.open
                   /\ cache' = cache /\ fs' = fs
             /\ (/\ p.rc > 0 /\ p.rc < Len(b)
                 /\ dispatch_command(World, p.out, <<>>).result >= 0
                 /\ resp_parse(SubSeq(b, p.rc + 1, Len(b)), Len(b) - p.rc).rc < 0) =>
                   \E heap_tail \in HeapTails :
                   \E d \in {dispatch_command(World, p.out, heap_tail)} :
                      /\ conn'.sent = Append(Written(conn.sent, d.reply, p.out),
                                             ProtocolError)
                      /\ conn'.cmd_buf = <<>>
                      /\ conn'.open
                      /\ cache' = d.w.cache /\ fs' = d.w.fs]_vars

\* C33 witness: two frames were sent and all their bytes read, and the only
\* replies are two protocol errors: the second answered a read whose front was
\* the rest of the first frame, with the whole second frame behind it
C33_Witness ==
    /\ Len(conn.frames) = 2
    /\ conn.stream = <<>>
    /\ conn.cmd_buf = <<>>
    /\ conn.open
    /\ conn.sent = <<ProtocolError, ProtocolError>>

\* C34: the frame of a SET whose value is within MAX_STR_LEN is eventually
\* parsed and dispatched, however its bytes are split into reads: a reply that
\* answers the SET is eventually written.
C34_LongFrameDispatched ==
    <>(\E i \in 1..Len(conn.sent) : conn.sent[i].cmd.command = <<83, 69, 84, 0>>)

\* C35: a well-framed command with a null bulk string as its name or as an
\* argument is parsed and answered: the server process is never killed, and
\* once the bytes in flight are read every frame sent has drawn one reply.
C35_NullElementAnswered ==
    /\ last.op # "SIGSEGV"
    /\ (conn.stream = <<>> /\ conn.open) =>
          /\ conn.cmd_buf = <<>>
          /\ Len(conn.sent) = Len(conn.frames)

\* C36: the integer in the reply of an INCR is the signed decimal number that
\* INCR writes back, also when that number is negative or zero: the digits of
\* the reply are those of sprintf("%ld") on the incremented value.
C36_IncrReplySigned ==
    [][(last'.op = "INCR" /\ last'.reply.t = "integer") =>
          \E heap_tail \in HeapTails :
             /\ handle_incr(World, last'.key, heap_tail).reply = last'.reply
             /\ last'.reply.b = FmtLd(IncrResult(World, last'.key, heap_tail))]_vars

\* C37: for PODCACHE_SIZE s in 1..4096 and PODCACHE_PARTITIONS p in 1..64 the
\* total capacity is s * 1048576 bytes and the capacity of a partition is
\* floor(s * 1048576 / p), without wrap-around.
C37_CapacityExact ==
    (last.op = "start" /\ last.key # NULL /\ last.val # NULL) =>
       \A s \in {strtol(last.key).val}, p \in {strtol(last.val).val} :
          (/\ last.key = UDigits(s) /\ s \in 1..4096
           /\ last.val = UDigits(p) /\ p \in 1..64) =>
             /\ cache.total_capacity = <<0, s, 0>>
             /\ cache.partition_capacity = <<0, s \div p, ((s % p) * 1048576) \div p>>
             /\ cache.partition_count = p

\* the partition of a one-byte key: djb2 is 5381 * 33 + c, taken modulo the
\* number of partitions
HomeOf(key) == (5381 * 33 + key[1]) % cache.partition_count

\* C38: a coordinator operation on key k touches only partition
\* djb2(k) mod partition_count: every other partition is left as it was, and
\* put, get and evict agree on the partition, so a key is never held by a
\* partition other than its own.
C38_OnlyHomePartition ==
    [][\A k \in Keys :
          last'.key = k =>
             /\ cache'.partition_count = cache.partition_count
             /\ \A i \in DOMAIN cache.partitions :
                   i # HomeOf(k) => cache'.partitions[i] = cache.partitions[i]
             /\ \A j \in Keys, i \in DOMAIN cache'.partitions :
                   NodeIndex(cache'.partitions[i], j) # 0 => i = HomeOf(j)]_vars

\* C38 witness: two partitions, each holding its key, after a GET of a that
\* found it
C38_Witness ==
    /\ cache.partition_count = 2
    /\ last.op = "GET" /\ last.key = <<97>> /\ last.reply.t = "bulk"
    /\ NodeIndex(cache.partitions[HomeOf(<<97>>)], <<97>>) # 0
    /\ NodeIndex(cache.partitions[HomeOf(<<98>>)], <<98>>) # 0
    /\ HomeOf(<<97>>) # HomeOf(<<98>>)

\* C39: once the teardown of the cache has started no handler thread is inside
\* a cache operation, and none enters one afterwards: while the cache is being
\* destroyed or is freed, no handler thread is dispatching a command.
C39_TeardownAfterHandlers ==
    thr.cache # "live" => \A i \in 1..MaxHandlers : thr.h[i] # "dispatch_command"

\* C40: a SET that replies -ERR failed to store value leaves the logical
\* contents of the cache unchanged: for every key the value a GET would find,
\* the memory copy or else the disk copy, is the same after it as before it.
C40_FailedSetKeepsContents ==
    [][(last'.op = "SET" /\ last'.reply = send_error_response("failed to store value"))
          => \A k \in Keys : ContentsOf([cache |-> cache', fs |-> fs'], k) = ContentsOf(World, k)]_vars

\* C40 witness: a SET has just replied -ERR failed to store value and another
\* key has no memory copy but a disk copy (an entry spilled to disk)
C40_Witness ==
    /\ last.op = "SET"
    /\ last.reply = send_error_response("failed to store value")
    /\ \E k \in Keys : k # last.key /\ ~InMemory(k) /\ OnDisk(k)

====
